---- MODULE Spec2Model ----
(***************************************************************************)
(* Model of the NTSB proxy: the upstream streaming/retry client            *)
(* (app/server/services/ntsb_client.py), the in-memory case pipeline       *)
(* (app/server/services/data_processor.py) and the routes that combine     *)
(* them (app/server/routes/data.py, app/server/routes/download.py).        *)
(***************************************************************************)
EXTENDS Integers, Sequences, FiniteSets, TLC

VARIABLES
    op,         \* which stream_ntsb_zip_by_* generator the caller consumes
    pc,         \* position of the generator
    attempt,    \* local `attempt` of _stream_file_export
    posts,      \* POST requests issued so far
    connOpen,   \* the `async with client.stream(...)` block is entered
    script,     \* what the upstream answers to the 1st, 2nd, ... request
    sent,       \* chunks of the current response already yielded
    delivered,  \* chunks the caller has received, in order
    err,        \* exception raised to the caller
    sleeps,     \* durations of the backoff sleeps performed
    cancelled,  \* the calling context cancelled the request
    cases,      \* DataProcessor input: the list of case records
    field,      \* sort_cases: the dotted path, as its characters
    order,      \* sort_cases: the order argument
    filters,    \* filter_cases: the items of the filters dict, in order
    out,        \* the list a pipeline stage returned
    perm,       \* for each position of out, the position in cases it came from
    raised,     \* exception a pipeline stage raised
    stage,      \* which pipeline stage has run
    limit,      \* paginate: the limit argument
    offset,     \* paginate: the offset argument
    page,       \* paginate: the dict it returned
    stats,      \* generate_stats: the returned dict
    resolved,   \* get_nested_value: the results of the two copies
    year,       \* stream_ntsb_zip_by_month: the year argument
    month,      \* stream_ntsb_zip_by_month: the month argument
    mode,       \* stream_ntsb_zip_by_month: the mode argument
    payload,    \* the JSON body handed to _stream_file_export
    endpoint,   \* the route the HTTP request is for
    request,    \* the parameters of the HTTP request
    upstream,   \* what the NTSB service does with the request of this route
    rpc,        \* position of the route handler
    calls,      \* upstream requests issued for this HTTP request
    received,   \* chunks the handler has taken from the stream
    buf,        \* _download_zip_bytes: the number of bytes collected so far
    invoked,    \* the DataProcessor methods invoked, in order
    response,   \* the HTTP response
    store,      \* _rate_limit_store: client IP -> {"reset", "count"}
    now,        \* time.time(), in ticks
    handling,   \* per client IP, the requests that are inside call_next
    passed,     \* per client IP, the requests passed on since its window began
    last        \* what the middleware did with the latest request

streamVars == <<op, pc, attempt, posts, connOpen, script, sent, delivered,
                err, sleeps, cancelled>>

monthVars == <<year, month, mode, payload>>

routeVars == <<endpoint, request, upstream, rpc, calls, received, buf, invoked,
               response>>

rateVars == <<store, now, handling, passed, last>>

extVars == <<limit, offset, page, stats, resolved, monthVars, routeVars, rateVars>>

pipeVars == <<cases, field, order, filters, out, perm, raised, stage, extVars>>

vars == <<op, pc, attempt, posts, connOpen, script, sent, delivered,
          err, sleeps, cancelled,
          cases, field, order, filters, out, perm, raised, stage,
          limit, offset, page, stats, resolved,
          year, month, mode, payload,
          endpoint, request, upstream, rpc, calls, received, buf, invoked,
          response,
          store, now, handling, passed, last>>

(***************************************************************************)
(* Program constants                                                       *)
(***************************************************************************)
MAX_RETRIES == 3
RETRY_BACKOFF_SECONDS == 1

(***************************************************************************)
(* Bounds                                                                  *)
(***************************************************************************)
MaxChunks == 2

\* requests the upstream script answers: one more than the cap, so that a
\* request beyond the cap would be visible
ScriptLen == MAX_RETRIES + 1

(***************************************************************************)
(* Upstream outcomes of one attempt                                        *)
(***************************************************************************)
\* exceptions named by the first except clause
RetryableTransport == {"ConnectError", "ReadTimeout", "RemoteProtocolError"}

\* statuses for which response.raise_for_status() raises HTTPStatusError
ErrorStatuses == {404, 500, 599}

\* kind "ok": the body has n chunks.  ReadTimeout / RemoteProtocolError: the
\* response delivers n chunks and then fails.  ConnectError, ConnectTimeout
\* and an error status occur before any chunk.
Outcomes ==
    [kind : {"ok", "ReadTimeout", "RemoteProtocolError"}, status : {200}, n : 0..MaxChunks]
    \cup [kind : {"ConnectError", "ConnectTimeout"}, status : {0}, n : {0}]
    \cup [kind : {"HTTPStatusError"}, status : ErrorStatuses, n : {0}]

NoErr == [kind |-> "none", status |-> 0, attempt |-> 0]

ErrOf(o, a) == [kind |-> o.kind, status |-> o.status, attempt |-> a]

\* the chunks of the response to request a
Body(a) == [i \in 1..script[a].n |-> <<a, i>>]

(***************************************************************************)
(* _stream_file_export: the except clauses                                 *)
(***************************************************************************)
\* variant: the first except clause also catches the cancellation
CaughtTransport_Cancel(kind) == kind \in RetryableTransport \cup {"CancelledError"}

\* line 121: the exception types the first except clause names
CaughtTransport(kind) == kind \in RetryableTransport

\* variant: the cap is reached one attempt early
TransportRetry_Early(att) == ~(att >= MAX_RETRIES - 1)

\* lines 122-124: TRUE iff the transport failure is retried
TransportRetry(att) == ~(att >= MAX_RETRIES)

\* variant: a 5xx on the last attempt is still retried
StatusRetry_Late(status, att) == 500 <= status /\ status < 600 /\ att <= MAX_RETRIES

\* variant: every error status is retried
StatusRetry_Any(status, att) == att < MAX_RETRIES

\* lines 126-130: TRUE iff the status failure is retried
StatusRetry(status, att) == 500 <= status /\ status < 600 /\ att < MAX_RETRIES

\* "retry" (sleep, then loop) or "raise" for an exception leaving the try body
HandleExc(kind, status, att) ==
    IF CaughtTransport(kind)
    THEN IF TransportRetry(att) THEN "retry" ELSE "raise"
    ELSE IF kind = "HTTPStatusError"
         THEN IF StatusRetry(status, att) THEN "retry" ELSE "raise"
         ELSE "raise"

\* lines 121-130: the exception o of attempt att has left both `async with`
\* blocks; the matching except clause runs up to its await, or the exception
\* leaves the generator
Except(o, att) ==
    IF HandleExc(o.kind, o.status, att) = "retry"
    THEN /\ sleeps' = Append(sleeps, RETRY_BACKOFF_SECONDS * att)
         /\ pc' = "sleep"
         /\ err' = err
    ELSE IF o.kind = "CancelledError"
    THEN /\ pc' = "cancelled"
         /\ UNCHANGED <<err, sleeps>>
    ELSE /\ pc' = "error"
         /\ err' = ErrOf(o, att)
         /\ sleeps' = sleeps

(***************************************************************************)
(* Initial state: the generator object is created, nothing has run         *)
(***************************************************************************)
Placeholders == {"ntsb_number", "mkey"}

DefaultScript == [i \in 1..ScriptLen |-> [kind |-> "ok", status |-> 200, n |-> 0]]

\* no month stream has been asked for
MonthIdle ==
    /\ year = 0
    /\ month = 0
    /\ mode = ""
    /\ payload = <<>>

\* no HTTP request is being handled
RouteIdle ==
    /\ endpoint = "none"
    /\ request = <<>>
    /\ upstream = <<>>
    /\ rpc = "idle"
    /\ calls = 0
    /\ received = 0
    /\ buf = 0
    /\ invoked = <<>>
    /\ response = <<>>

\* the rate limiter has seen no request
RateIdle ==
    /\ store = <<>>
    /\ now = 0
    /\ handling = <<>>
    /\ passed = <<>>
    /\ last = <<>>

\* nothing has been paginated, aggregated or resolved
PageIdle ==
    /\ limit = 0
    /\ offset = 0
    /\ page = <<>>
    /\ stats = <<>>
    /\ resolved = <<>>

ExtIdle ==
    /\ PageIdle
    /\ MonthIdle
    /\ RouteIdle
    /\ RateIdle

\* no DataProcessor method is running
CoreIdle ==
    /\ cases = <<>>
    /\ field = <<>>
    /\ order = <<"a", "s", "c">>
    /\ filters = <<>>
    /\ out = <<>>
    /\ perm = <<>>
    /\ raised = "none"
    /\ stage = "idle"

\* no pipeline stage is running
PipeIdle ==
    /\ ExtIdle
    /\ CoreIdle

Init ==
    /\ PipeIdle
    /\ op \in {"date_range"} \cup Placeholders
    /\ IF op \in Placeholders
       THEN script = DefaultScript
       ELSE script \in [1..ScriptLen -> Outcomes]
    /\ pc = "start"
    /\ attempt = 0
    /\ posts = 0
    /\ connOpen = FALSE
    /\ sent = 0
    /\ delivered = <<>>
    /\ err = NoErr
    /\ sleeps = <<>>
    /\ cancelled = FALSE

(***************************************************************************)
(* _stream_file_export, reached through stream_ntsb_zip_by_date_range.     *)
(* The generator gives up the event loop at every await: while the request *)
(* is in flight (pc "connecting"), while it waits for a chunk or is        *)
(* suspended at the yield ("streaming"), in the exit of client.stream()    *)
(* ("closing"), in the exit of AsyncClient ("closed") and in anyio.sleep   *)
(* ("sleep").                                                              *)
(***************************************************************************)
\* lines 108-116: attempt += 1, AsyncClient is entered and client.stream()
\* sends the POST
Post ==
    /\ op = "date_range"
    /\ pc \in {"start", "request"}
    /\ attempt < ScriptLen
    /\ attempt' = attempt + 1
    /\ posts' = posts + 1
    /\ sent' = 0
    /\ pc' = "connecting"
    /\ UNCHANGED <<op, connOpen, script, delivered, err, sleeps, cancelled>>
    /\ UNCHANGED pipeVars

\* lines 111-116: no response arrives, client.stream() raises and the
\* exception goes on to the exit of AsyncClient
ConnectFail ==
    /\ pc = "connecting"
    /\ script[posts].kind \in {"ConnectError", "ConnectTimeout"}
    /\ pc' = "closed"
    /\ UNCHANGED <<op, attempt, posts, connOpen, script, sent, delivered, err, sleeps,
                   cancelled>>
    /\ UNCHANGED pipeVars

\* lines 116-117: the response has arrived and the block of client.stream()
\* is entered; raise_for_status() raises for an error status, which takes the
\* generator to the exit of client.stream()
ResponseArrives ==
    /\ pc = "connecting"
    /\ script[posts].kind \notin {"ConnectError", "ConnectTimeout"}
    /\ connOpen' = TRUE
    /\ pc' = IF script[posts].kind = "HTTPStatusError" THEN "closing" ELSE "streaming"
    /\ UNCHANGED <<op, attempt, posts, script, sent, delivered, err, sleeps, cancelled>>
    /\ UNCHANGED pipeVars

\* lines 118-119: the next chunk of the response is yielded to the caller
YieldChunk ==
    /\ pc = "streaming"
    /\ sent < script[posts].n
    /\ sent' = sent + 1
    /\ delivered' = Append(delivered, <<posts, sent + 1>>)
    /\ UNCHANGED <<op, pc, attempt, posts, connOpen, script, err, sleeps, cancelled>>
    /\ UNCHANGED pipeVars

\* line 118: the body ended, the block of client.stream() is left
EndOfBody ==
    /\ pc = "streaming"
    /\ sent = script[posts].n
    /\ script[posts].kind = "ok"
    /\ pc' = "closing"
    /\ UNCHANGED <<op, attempt, posts, connOpen, script, sent, delivered, err, sleeps,
                   cancelled>>
    /\ UNCHANGED pipeVars

\* line 118: aiter_bytes raises after the chunks the response could deliver
ReadFail ==
    /\ pc = "streaming"
    /\ sent = script[posts].n
    /\ script[posts].kind # "ok"
    /\ pc' = "closing"
    /\ UNCHANGED <<op, attempt, posts, connOpen, script, sent, delivered, err, sleeps,
                   cancelled>>
    /\ UNCHANGED pipeVars

\* the exit of `async with client.stream(...)`: the response is closed and
\* its connection released
CloseResponse ==
    /\ pc = "closing"
    /\ connOpen' = FALSE
    /\ pc' = "closed"
    /\ UNCHANGED <<op, attempt, posts, script, sent, delivered, err, sleeps, cancelled>>
    /\ UNCHANGED pipeVars

\* the exit of `async with httpx.AsyncClient(...)` has returned: `break`
\* (line 120) after a complete body, else the except clauses
ExitClient ==
    /\ pc = "closed"
    /\ IF cancelled
       THEN Except([kind |-> "CancelledError", status |-> 0, n |-> 0], attempt)
       ELSE IF script[posts].kind = "ok"
       THEN /\ pc' = "done"
            /\ UNCHANGED <<err, sleeps>>
       ELSE Except(script[posts], attempt)
    /\ UNCHANGED <<op, attempt, posts, connOpen, script, sent, delivered, cancelled>>
    /\ UNCHANGED pipeVars

\* lines 124/128: anyio.sleep returned; `continue` / fall through to the loop
Wake ==
    /\ pc = "sleep"
    /\ pc' = "request"
    /\ UNCHANGED <<op, attempt, posts, connOpen, script, sent, delivered, err, sleeps, cancelled>>
    /\ UNCHANGED pipeVars

\* The consumer of the stream is cancelled while the generator waits
\* inside the try body: CancelledError is raised at that await and leaves
\* through the exits that are still to run.  Raised in the exit of
\* AsyncClient, it goes straight to the except clauses.
CancelStream ==
    /\ pc \in {"connecting", "streaming", "closing", "closed"}
    /\ ~cancelled
    /\ cancelled' = TRUE
    /\ IF pc = "closed"
       THEN /\ Except([kind |-> "CancelledError", status |-> 0, n |-> 0], attempt)
            /\ UNCHANGED connOpen
       ELSE /\ pc' = IF pc = "streaming" THEN "closing" ELSE "closed"
            /\ connOpen' = IF pc = "closing" THEN FALSE ELSE connOpen
            /\ UNCHANGED <<err, sleeps>>
    /\ UNCHANGED <<op, attempt, posts, script, sent, delivered>>
    /\ UNCHANGED pipeVars

\* CancelledError raised by anyio.sleep inside an except clause propagates
CancelSleep ==
    /\ pc = "sleep"
    /\ cancelled' = TRUE
    /\ pc' = "cancelled"
    /\ UNCHANGED <<op, attempt, posts, connOpen, script, sent, delivered, err, sleeps>>
    /\ UNCHANGED pipeVars

\* lines 140-144: the consumer closes (or drops) the stream while it is
\* suspended at the yield of a chunk.  The stream is the wrapper _inner, whose
\* `async for` does not close the generator it iterates: _inner ends, and
\* _stream_file_export stays suspended inside `async with client.stream(...)`.
CloseStream ==
    /\ pc = "streaming"
    /\ sent > 0
    /\ ~cancelled
    /\ cancelled' = TRUE
    /\ pc' = "cancelled"
    /\ UNCHANGED <<op, attempt, posts, connOpen, script, sent, delivered, err, sleeps>>
    /\ UNCHANGED pipeVars

\* the event loop's finalizer for abandoned async generators closes
\* _stream_file_export later: GeneratorExit at line 119 leaves through both
\* exits.  Nothing makes this step happen when the loop has stopped.
Finalize ==
    /\ pc = "cancelled"
    /\ connOpen
    /\ connOpen' = FALSE
    /\ UNCHANGED <<op, pc, attempt, posts, script, sent, delivered, err, sleeps, cancelled>>
    /\ UNCHANGED pipeVars

(***************************************************************************)
(* The two placeholder lookups                                             *)
(***************************************************************************)
\* the first __anext__ of _inner raises NotImplementedError
RaiseNotImplemented ==
    /\ pc' = "error"
    /\ err' = [kind |-> "NotImplementedError", status |-> 0, attempt |-> 0]
    /\ UNCHANGED <<op, attempt, posts, connOpen, script, sent, delivered, sleeps, cancelled>>
    /\ UNCHANGED pipeVars

stream_ntsb_zip_by_ntsb_number ==
    /\ op = "ntsb_number"
    /\ pc = "start"
    /\ RaiseNotImplemented

\* variant: the raise is missing, the generator yields its b"" and ends
stream_ntsb_zip_by_mkey_NoRaise ==
    /\ op = "mkey"
    /\ pc = "start"
    /\ pc' = "done"
    /\ delivered' = Append(delivered, <<0, 1>>)
    /\ UNCHANGED <<op, attempt, posts, connOpen, script, sent, err, sleeps, cancelled>>
    /\ UNCHANGED pipeVars

stream_ntsb_zip_by_mkey ==
    /\ op = "mkey"
    /\ pc = "start"
    /\ RaiseNotImplemented

Next ==
    \/ Post
    \/ ConnectFail
    \/ ResponseArrives
    \/ YieldChunk
    \/ EndOfBody
    \/ ReadFail
    \/ CloseResponse
    \/ ExitClient
    \/ Wake
    \/ CancelStream
    \/ CancelSleep
    \/ CloseStream
    \/ Finalize
    \/ stream_ntsb_zip_by_ntsb_number
    \/ stream_ntsb_zip_by_mkey

Spec == Init /\ [][Next]_vars

\* The running event loop resumes a generator whose await has completed and
\* runs the finalizer it has scheduled for an abandoned generator: the exits
\* of the two `async with` blocks and the finalizer are not postponed for ever.
\* The upstream's answers and the consumer's requests for chunks get no such
\* condition.
SpecLive ==
    /\ Init
    /\ [][Next]_vars
    /\ WF_vars(CloseResponse)
    /\ WF_vars(ExitClient)
    /\ WF_vars(Finalize)


(***************************************************************************)
(* JSON values as json.loads builds them                                   *)
(***************************************************************************)
None == [t |-> "null"]
JBool(b) == [t |-> "bool", n |-> IF b THEN 1 ELSE 0]
JNum(k) == [t |-> "num", n |-> k]
JStr(x) == [t |-> "str", s |-> x]
JList(xs) == [t |-> "list", items |-> xs]
JDict(f) == [t |-> "dict", m |-> f]

\* a str is the sequence of its characters.  The characters of the model in
\* code-point order: tab, line feed, vertical tab, form feed, carriage return
\* and the printable ASCII characters but the grave accent
CharOrder ==
    <<"\t", "\n", "", "\f", "\r", " ", "!", "\"", "#", "$", "%", "&",
      "'", "(", ")", "*", "+", ",", "-", ".", "/", "0", "1", "2",
      "3", "4", "5", "6", "7", "8", "9", ":", ";", "<", "=", ">",
      "?", "@", "A", "B", "C", "D", "E", "F", "G", "H", "I", "J",
      "K", "L", "M", "N", "O", "P", "Q", "R", "S", "T", "U", "V",
      "W", "X", "Y", "Z", "[", "\\", "]", "^", "_", "a", "b",
      "c", "d", "e", "f", "g", "h", "i", "j", "k", "l", "m", "n",
      "o", "p", "q", "r", "s", "t", "u", "v", "w", "x", "y", "z",
      "{", "|", "}", "~">>

CharRank(c) == CHOOSE i \in DOMAIN CharOrder : CharOrder[i] = c

\* str < str: the first position where the two differ decides, a proper
\* prefix is smaller
StrLt(a, b) ==
    LET diff == {i \in 1..Len(a) : i <= Len(b) /\ a[i] # b[i]}
    IN IF diff = {} THEN Len(a) < Len(b)
       ELSE LET i == CHOOSE d \in diff : \A e \in diff : d <= e
            IN CharRank(a[i]) < CharRank(b[i])

Reverse(xs) == [i \in 1..Len(xs) |-> xs[Len(xs) + 1 - i]]

\* Python ==: bool is a subclass of int, so True == 1 and False == 0
RECURSIVE PyEq(_, _)
PyEq(a, b) ==
    IF a.t \in {"bool", "num"} /\ b.t \in {"bool", "num"} THEN a.n = b.n
    ELSE IF a.t # b.t THEN FALSE
    ELSE IF a.t = "null" THEN TRUE
    ELSE IF a.t = "str" THEN a.s = b.s
    ELSE IF a.t = "list"
         THEN /\ Len(a.items) = Len(b.items)
              /\ \A i \in 1..Len(a.items) : PyEq(a.items[i], b.items[i])
    ELSE /\ DOMAIN a.m = DOMAIN b.m
         /\ \A k \in DOMAIN a.m : PyEq(a.m[k], b.m[k])

\* Python <: "T", "F", or "E" when the operands do not support it (TypeError)
RECURSIVE PyLt(_, _)
PyLt(a, b) ==
    IF a.t \in {"bool", "num"} /\ b.t \in {"bool", "num"}
    THEN IF a.n < b.n THEN "T" ELSE "F"
    ELSE IF a.t = "str" /\ b.t = "str"
    THEN IF StrLt(a.s, b.s) THEN "T" ELSE "F"
    ELSE IF a.t = "list" /\ b.t = "list"
    THEN LET common == {i \in 1..Len(a.items) : i <= Len(b.items)}
             diff == {i \in common : ~PyEq(a.items[i], b.items[i])}
         IN IF diff = {}
            THEN IF Len(a.items) < Len(b.items) THEN "T" ELSE "F"
            ELSE LET i == CHOOSE d \in diff : \A e \in diff : d <= e
                 IN PyLt(a.items[i], b.items[i])
    ELSE "E"

\* x in xs
PyIn(x, xs) == \E i \in 1..Len(xs) : PyEq(x, xs[i])

(***************************************************************************)
(* Dotted paths: path.split("."), int(part)                                *)
(***************************************************************************)
Digits == <<"0", "1", "2", "3", "4", "5", "6", "7", "8", "9">>

IsDigit(c) == \E i \in DOMAIN Digits : Digits[i] = c

DigitVal(c) == (CHOOSE i \in DOMAIN Digits : Digits[i] = c) - 1

\* the characters of a segment as one string (a dict key)
RECURSIVE Join(_)
Join(cs) == IF cs = <<>> THEN "" ELSE Head(cs) \o Join(Tail(cs))

\* str.split("."): the segments between the dots, empty ones included
RECURSIVE SplitFrom(_, _, _)
SplitFrom(cs, i, cur) ==
    IF i > Len(cs) THEN <<cur>>
    ELSE IF cs[i] = "." THEN <<cur>> \o SplitFrom(cs, i + 1, <<>>)
    ELSE SplitFrom(cs, i + 1, Append(cur, cs[i]))

Split(cs) == SplitFrom(cs, 1, <<>>)

\* the whitespace int() skips around the digits: tab, line feed, vertical
\* tab, form feed, carriage return, blank, NEL and the no-break space (the
\* spaces from U+1680 on, which it skips as well, are not in the model)
RECURSIVE LStrip(_)
LStrip(cs) ==
    IF cs # <<>> /\ Head(cs) \in {"\t", "\n", "", "\f", "\r", " ", "", " "}
    THEN LStrip(Tail(cs)) ELSE cs

Strip(cs) == Reverse(LStrip(Reverse(LStrip(cs))))

\* value of a run of digits with single underscores between digits
RECURSIVE DigitsValue(_, _)
DigitsValue(cs, acc) ==
    IF cs = <<>> THEN acc
    ELSE IF Head(cs) = "_" THEN DigitsValue(Tail(cs), acc)
    ELSE DigitsValue(Tail(cs), 10 * acc + DigitVal(Head(cs)))

DigitsOk(cs) ==
    /\ cs # <<>>
    /\ IsDigit(cs[1])
    /\ IsDigit(cs[Len(cs)])
    /\ \A i \in 1..Len(cs) : IsDigit(cs[i]) \/ cs[i] = "_"
    /\ \A i \in 1..(Len(cs) - 1) : ~(cs[i] = "_" /\ cs[i + 1] = "_")

\* int(part): whitespace stripped, optional sign, decimal digits; ok = FALSE
\* stands for ValueError
PyInt(part) ==
    LET st == Strip(part)
        signed == st # <<>> /\ Head(st) \in {"+", "-"}
        body == IF signed THEN Tail(st) ELSE st
    IN IF DigitsOk(body)
       THEN [ok |-> TRUE,
             v |-> IF signed /\ Head(st) = "-"
                   THEN 0 - DigitsValue(body, 0) ELSE DigitsValue(body, 0)]
       ELSE [ok |-> FALSE, v |-> 0]

(***************************************************************************)
(* DataProcessor.filter_cases                                              *)
(***************************************************************************)
\* variant: no check for a negative index, so that -1 is the last element
RECURSIVE filter_get_loop_NegIndex(_, _, _)
filter_get_loop_NegIndex(current, parts, i) ==
    IF i > Len(parts) THEN current
    ELSE IF current.t = "list"
    THEN LET idx == PyInt(parts[i])
             n == Len(current.items)
         IN IF ~idx.ok THEN None
            ELSE IF idx.v >= n \/ idx.v + n < 0 THEN None
            ELSE filter_get_loop_NegIndex(
                     current.items[(IF idx.v < 0 THEN idx.v + n ELSE idx.v) + 1],
                     parts, i + 1)
    ELSE IF current.t = "dict"
    THEN IF Join(parts[i]) \notin DOMAIN current.m THEN None
         ELSE filter_get_loop_NegIndex(current.m[Join(parts[i])], parts, i + 1)
    ELSE None

\* the loop of filter_cases.get_nested_value from segment i on
RECURSIVE filter_get_loop(_, _, _)
filter_get_loop(current, parts, i) ==
    IF i > Len(parts) THEN current
    ELSE IF current.t = "list"
    THEN LET idx == PyInt(parts[i])
         IN IF ~idx.ok THEN None
            ELSE IF idx.v < 0 \/ idx.v >= Len(current.items) THEN None
            ELSE filter_get_loop(current.items[idx.v + 1], parts, i + 1)
    ELSE IF current.t = "dict"
    THEN IF Join(parts[i]) \notin DOMAIN current.m THEN None
         ELSE filter_get_loop(current.m[Join(parts[i])], parts, i + 1)
    ELSE None

filter_get_nested_value(obj, path) == filter_get_loop(obj, Split(path), 1)

\* variant: the loop keeps the verdict of the last predicate only
RECURSIVE match_loop_LastWins(_, _, _)
match_loop_LastWins(case, items, i) ==
    IF i > Len(items) THEN TRUE
    ELSE LET value == items[i].v
             actual == filter_get_nested_value(case, items[i].k)
             rest == \E j \in (i + 1)..Len(items) : items[j].v # None
         IN IF value = None THEN match_loop_LastWins(case, items, i + 1)
            ELSE IF rest THEN match_loop_LastWins(case, items, i + 1)
            ELSE IF value.t = "list" THEN PyIn(actual, value.items)
            ELSE PyEq(actual, value)

\* lines 77-92: the value of `match` after the loop over filters.items()
RECURSIVE match_loop(_, _, _)
match_loop(case, items, i) ==
    IF i > Len(items) THEN TRUE
    ELSE LET value == items[i].v
             actual == filter_get_nested_value(case, items[i].k)
         IN IF value = None THEN match_loop(case, items, i + 1)
            ELSE IF value.t = "list"
            THEN IF ~PyIn(actual, value.items) THEN FALSE
                 ELSE match_loop(case, items, i + 1)
            ELSE IF ~PyEq(actual, value) THEN FALSE
                 ELSE match_loop(case, items, i + 1)

\* lines 75-97: the list `filtered` after the loop over cases from i on
RECURSIVE filter_loop(_, _, _, _)
filter_loop(cs, items, i, filtered) ==
    IF i > Len(cs) THEN filtered
    ELSE filter_loop(cs, items, i + 1,
                     IF match_loop(cs[i], items, 1)
                     THEN Append(filtered, cs[i]) ELSE filtered)

filter_cases(cs, items) ==
    IF items = <<>> THEN cs ELSE filter_loop(cs, items, 1, <<>>)

(***************************************************************************)
(* DataProcessor.sort_cases                                                *)
(***************************************************************************)
\* variant: a value that is neither list nor dict is kept, not dropped
RECURSIVE sort_get_loop_ScalarKept(_, _, _)
sort_get_loop_ScalarKept(current, parts, i) ==
    IF i > Len(parts) THEN current
    ELSE IF current.t = "list"
    THEN LET idx == PyInt(parts[i])
         IN IF ~idx.ok THEN None
            ELSE IF idx.v < 0 \/ idx.v >= Len(current.items) THEN None
            ELSE sort_get_loop_ScalarKept(current.items[idx.v + 1], parts, i + 1)
    ELSE IF current.t = "dict"
    THEN sort_get_loop_ScalarKept(IF Join(parts[i]) \in DOMAIN current.m
                                  THEN current.m[Join(parts[i])] ELSE None,
                                  parts, i + 1)
    ELSE sort_get_loop_ScalarKept(current, parts, i + 1)

\* the loop of sort_cases.get_nested_value from segment i on
RECURSIVE sort_get_loop(_, _, _)
sort_get_loop(current, parts, i) ==
    IF i > Len(parts) THEN current
    ELSE IF current.t = "list"
    THEN LET idx == PyInt(parts[i])
         IN IF ~idx.ok THEN None
            ELSE IF idx.v < 0 \/ idx.v >= Len(current.items) THEN None
            ELSE sort_get_loop(current.items[idx.v + 1], parts, i + 1)
    ELSE IF current.t = "dict"
    THEN sort_get_loop(IF Join(parts[i]) \in DOMAIN current.m
                       THEN current.m[Join(parts[i])] ELSE None,
                       parts, i + 1)
    ELSE None

sort_get_nested_value(obj, path) == sort_get_loop(obj, Split(path), 1)

\* line 129: (value is None, value)
sort_key(case, path) ==
    LET value == sort_get_nested_value(case, path)
    IN <<value = None, value>>

\* tuple < tuple: the first items that differ under == decide
KeyLt(ka, kb) ==
    IF ka[1] # kb[1] THEN (IF ~ka[1] /\ kb[1] THEN "T" ELSE "F")
    ELSE IF PyEq(ka[2], kb[2]) THEN "F"
    ELSE PyLt(ka[2], kb[2])

KeyEq(ka, kb) == ka[1] = kb[1] /\ PyEq(ka[2], kb[2])

\* stable insertion of position x into the sorted positions acc: after every
\* position whose key is not greater
InsertPos(keys, acc, x) ==
    LET greater == {p \in 1..Len(acc) : KeyLt(keys[x], keys[acc[p]]) = "T"}
        pos == IF greater = {} THEN Len(acc) + 1
               ELSE CHOOSE p \in greater : \A q \in greater : p <= q
    IN SubSeq(acc, 1, pos - 1) \o <<x>> \o SubSeq(acc, pos, Len(acc))

RECURSIVE StableSort(_, _, _, _)
StableSort(keys, todo, i, acc) ==
    IF i > Len(todo) THEN acc
    ELSE StableSort(keys, todo, i + 1, InsertPos(keys, acc, todo[i]))

\* some comparison of two keys raises TypeError
Unorderable(keys) ==
    \E i, j \in 1..Len(keys) : i # j /\ KeyLt(keys[i], keys[j]) = "E"

Identity(n) == [i \in 1..n |-> i]

\* variant: reverse=True reverses the ascending result
sorted_PlainReverse(keys, reverse) ==
    IF Unorderable(keys) THEN <<0>>
    ELSE IF reverse
         THEN Reverse(StableSort(keys, Identity(Len(keys)), 1, <<>>))
         ELSE StableSort(keys, Identity(Len(keys)), 1, <<>>)

\* sorted(..., key=, reverse=): the positions of the input in output order;
\* with reverse the list is reversed, sorted and reversed again, which keeps
\* equal keys in input order.  <<0>> stands for TypeError.
sorted(keys, reverse) ==
    IF Unorderable(keys) THEN <<0>>
    ELSE IF reverse
         THEN Reverse(StableSort(keys, Reverse(Identity(Len(keys))), 1, <<>>))
         ELSE StableSort(keys, Identity(Len(keys)), 1, <<>>)

\* str.lower(): the letters A-Z become a-z (the letters beyond ASCII, which
\* str.lower() maps as well, are not in the model)
Lower(cs) ==
    [i \in 1..Len(cs) |->
        IF CharRank("A") <= CharRank(cs[i]) /\ CharRank(cs[i]) <= CharRank("Z")
        THEN CharOrder[CharRank(cs[i]) + CharRank("a") - CharRank("A")] ELSE cs[i]]

\* positions of cs in the order sort_cases returns them; <<0>> for TypeError
sort_perm(cs, path, ord) ==
    IF path = <<>> THEN Identity(Len(cs))
    ELSE LET descending == Lower(ord) = <<"d", "e", "s", "c">>
             keys == [i \in 1..Len(cs) |-> sort_key(cs[i], path)]
         IN sorted(keys, descending)

SortRaises(cs, path, ord) == sort_perm(cs, path, ord) = <<0>>

sort_cases(cs, path, ord) ==
    LET p == sort_perm(cs, path, ord) IN [i \in 1..Len(cs) |-> cs[p[i]]]

(***************************************************************************)
(* Inputs of the pipeline stages                                           *)
(***************************************************************************)
MaxCases == 3

\* records with the value of "a" missing, null, or of each JSON type
SortRecords ==
    <<JDict(("a" :> JNum(1)) @@ ("id" :> JNum(1))),
      JDict(("a" :> JNum(1)) @@ ("id" :> JNum(2))),
      JDict(("a" :> JBool(TRUE)) @@ ("id" :> JNum(3))),
      JDict(("a" :> JNum(2)) @@ ("id" :> JNum(4))),
      JDict(("a" :> None) @@ ("id" :> JNum(5))),
      JDict("id" :> JNum(6)),
      JDict(("a" :> JStr(<<"x">>)) @@ ("id" :> JNum(7))),
      JDict(("a" :> JList(<<JNum(2), JNum(1)>>)) @@ ("id" :> JNum(8))),
      JDict(("a" :> JDict("b" :> JNum(1))) @@ ("id" :> JNum(9)))>>

CaseUniverse == {SortRecords[i] : i \in DOMAIN SortRecords}

SeqUpTo(S, n) == UNION {[1..k -> S] : k \in 0..n}

SortFields == {<<"a">>, <<"a", ".", "0">>, <<"a", ".", "b">>, <<>>}

Orders == {<<"a", "s", "c">>, <<"d", "e", "s", "c">>, <<"D", "E", "S", "C">>,
           <<"d", "E", "s", "c">>}

FilterValues ==
    {None, JNum(1), JBool(TRUE), JStr(<<"x">>), JList(<<JNum(2), JStr(<<"x">>)>>)}

FilterItems(keys) == [k : keys, v : FilterValues]

\* the items of a filters dict: keys are distinct
FilterSets ==
    LET two == FilterItems({<<"a">>, <<"i", "d">>})
    IN {<<>>}
       \cup {<<x>> : x \in two \cup FilterItems({<<"a", ".", "0">>})}
       \cup {p \in {<<x, y>> : x \in two, y \in two} : p[1].k # p[2].k}

\* the streaming client is not running
StreamIdle ==
    /\ op = "none"
    /\ pc = "idle"
    /\ attempt = 0
    /\ posts = 0
    /\ connOpen = FALSE
    /\ script = <<>>
    /\ sent = 0
    /\ delivered = <<>>
    /\ err = NoErr
    /\ sleeps = <<>>
    /\ cancelled = FALSE

(***************************************************************************)
(* sort_cases applied to an input                                          *)
(***************************************************************************)
InitSort ==
    /\ StreamIdle
    /\ ExtIdle
    /\ cases \in SeqUpTo(CaseUniverse, MaxCases)
    /\ field \in SortFields
    /\ order \in Orders
    /\ filters = <<>>
    /\ out = <<>>
    /\ perm = <<>>
    /\ raised = "none"
    /\ stage = "input"

SortCases ==
    /\ stage = "input"
    /\ stage' = "sorted"
    /\ IF SortRaises(cases, field, order)
       THEN /\ raised' = "TypeError"
            /\ out' = <<>>
            /\ perm' = <<>>
       ELSE /\ raised' = "none"
            /\ out' = sort_cases(cases, field, order)
            /\ perm' = sort_perm(cases, field, order)
    /\ UNCHANGED <<cases, field, order, filters>>
    /\ UNCHANGED extVars
    /\ UNCHANGED streamVars

NextSort == SortCases

SpecSort == InitSort /\ [][NextSort]_vars

(***************************************************************************)
(* filter_cases applied to an input                                        *)
(***************************************************************************)
InitFilter ==
    /\ StreamIdle
    /\ ExtIdle
    /\ cases \in SeqUpTo(CaseUniverse, MaxCases)
    /\ filters \in FilterSets
    /\ field = <<>>
    /\ order = <<"a", "s", "c">>
    /\ out = <<>>
    /\ perm = <<>>
    /\ raised = "none"
    /\ stage = "input"

FilterCases ==
    /\ stage = "input"
    /\ stage' = "filtered"
    /\ out' = filter_cases(cases, filters)
    /\ UNCHANGED <<cases, field, order, filters, perm, raised>>
    /\ UNCHANGED extVars
    /\ UNCHANGED streamVars

NextFilter == FilterCases

SpecFilter == InitFilter /\ [][NextFilter]_vars

(***************************************************************************)
(* DataProcessor.paginate                                                  *)
(***************************************************************************)
MaxLimit == 4
MaxOffset == 4

\* xs[start:stop] as list slicing computes it: a negative index counts from
\* the end, then both are clamped to 0..len(xs)
PySlice(xs, start, stop) ==
    LET n == Len(xs)
        Adjust(i) == IF i < 0
                     THEN (IF i + n < 0 THEN 0 ELSE i + n)
                     ELSE (IF i >= n THEN n ELSE i)
        lo == Adjust(start)
        hi == Adjust(stop)
    IN IF lo < hi THEN SubSeq(xs, lo + 1, hi) ELSE <<>>

\* PaginationResult.to_dict
to_dict(result) ==
    [items |-> result.items,
     pagination |-> [total |-> result.total, limit |-> result.limit,
                     offset |-> result.offset]]

\* variant: the end index is the limit, not offset + limit
paginate_EndIsLimit(cs, lim, off) ==
    to_dict([items |-> PySlice(cs, off, lim), total |-> Len(cs),
             limit |-> lim, offset |-> off])

\* lines 146-157
paginate(cs, lim, off) ==
    LET total == Len(cs)
        start == off
        end == off + lim
        items == PySlice(cs, start, end)
        result == [items |-> items, total |-> total, limit |-> lim, offset |-> off]
    IN to_dict(result)

PageCases == SeqUpTo({SortRecords[1], SortRecords[2], SortRecords[4]}, MaxCases)

InitPaginate ==
    /\ StreamIdle
    /\ cases \in PageCases
    /\ limit \in 1..MaxLimit
    /\ offset \in 0..MaxOffset
    /\ field = <<>>
    /\ order = <<"a", "s", "c">>
    /\ filters = <<>>
    /\ out = <<>>
    /\ perm = <<>>
    /\ raised = "none"
    /\ stage = "input"
    /\ page = <<>>
    /\ stats = <<>>
    /\ resolved = <<>>
    /\ MonthIdle
    /\ RouteIdle
    /\ RateIdle

Paginate ==
    /\ stage = "input"
    /\ stage' = "paginated"
    /\ page' = paginate(cases, limit, offset)
    /\ UNCHANGED <<cases, field, order, filters, out, perm, raised>>
    /\ UNCHANGED <<limit, offset, stats, resolved, monthVars, routeVars, rateVars>>
    /\ UNCHANGED streamVars

NextPaginate == Paginate

SpecPaginate == InitPaginate /\ [][NextPaginate]_vars

(***************************************************************************)
(* DataProcessor.generate_stats                                            *)
(***************************************************************************)
\* bool(v): None, False, 0, "", [] and {} are falsy
PyTruthy(v) ==
    IF v.t = "null" THEN FALSE
    ELSE IF v.t \in {"bool", "num"} THEN v.n # 0
    ELSE IF v.t = "str" THEN v.s # <<>>
    ELSE IF v.t = "list" THEN v.items # <<>>
    ELSE DOMAIN v.m # {}

\* case.get(key)
DictGet(case, key) == IF key \in DOMAIN case.m THEN case.m[key] ELSE None

\* variant: only None is replaced by the default
PyOr_NoneOnly(v, d) == IF v # None THEN v ELSE d

\* v or d
PyOr(v, d) == IF PyTruthy(v) THEN v ELSE d

\* int(v): the value of a number or a bool, the parse of a str (ValueError
\* when it is no integer literal), TypeError for None, a list or a dict
IntOf(v) ==
    IF v.t \in {"bool", "num"} THEN [exc |-> "none", v |-> v.n]
    ELSE IF v.t = "str"
    THEN IF PyInt(v.s).ok THEN [exc |-> "none", v |-> PyInt(v.s).v]
         ELSE [exc |-> "ValueError", v |-> 0]
    ELSE [exc |-> "TypeError", v |-> 0]

\* lines 185-187: int(case.get(key) or 0)
injury_count(case, key) == IntOf(PyOr(DictGet(case, key), JNum(0)))

\* variant: independent ifs, every positive count has its bucket incremented
severity_AllPositive(fatal, serious, minor) ==
    [fatal_accidents |-> IF fatal > 0 THEN 1 ELSE 0,
     serious_injury_accidents |-> IF serious > 0 THEN 1 ELSE 0,
     minor_injury_accidents |-> IF minor > 0 THEN 1 ELSE 0,
     no_injury_accidents |-> IF fatal > 0 \/ serious > 0 \/ minor > 0 THEN 0 ELSE 1]

\* lines 197-204: the increments of the four accident counters
severity(fatal, serious, minor) ==
    LET b == IF fatal > 0 THEN "fatal"
             ELSE IF serious > 0 THEN "serious"
             ELSE IF minor > 0 THEN "minor"
             ELSE "none"
    IN [fatal_accidents |-> IF b = "fatal" THEN 1 ELSE 0,
        serious_injury_accidents |-> IF b = "serious" THEN 1 ELSE 0,
        minor_injury_accidents |-> IF b = "minor" THEN 1 ELSE 0,
        no_injury_accidents |-> IF b = "none" THEN 1 ELSE 0]

\* hash(v) succeeds: a list or a dict as a dict key raises TypeError
Hashable(v) == v.t \notin {"list", "dict"}

\* d[key] = d.get(key, 0) + 1 for a hashable key, on a dict kept as its items
\* in insertion order
Increment(d, key) ==
    IF \E i \in DOMAIN d : PyEq(d[i].k, key)
    THEN [i \in DOMAIN d |-> IF PyEq(d[i].k, key)
                             THEN [k |-> d[i].k, n |-> d[i].n + 1] ELSE d[i]]
    ELSE Append(d, [k |-> key, n |-> 1])

EmptyStats ==
    [raised |-> "none",
     totals |-> [accidents |-> 0, fatal_accidents |-> 0,
                 serious_injury_accidents |-> 0, minor_injury_accidents |-> 0,
                 no_injury_accidents |-> 0, fatalities |-> 0,
                 serious_injuries |-> 0, minor_injuries |-> 0],
     by_state |-> <<>>,
     by_highest_injury |-> <<>>]

\* lines 183-207: one pass of the loop body over `case`
stats_step(acc, case) ==
    LET fatal == injury_count(case, "cm_fatalInjuryCount")
        serious == injury_count(case, "cm_seriousInjuryCount")
        minor == injury_count(case, "cm_minorInjuryCount")
        Unknown == JStr(<<"U", "n", "k", "n", "o", "w", "n">>)
        highest == PyOr(DictGet(case, "cm_highestInjury"), Unknown)
        state == PyOr(DictGet(case, "cm_state"), Unknown)
    IN IF fatal.exc # "none" THEN [acc EXCEPT !.raised = fatal.exc]
       ELSE IF serious.exc # "none" THEN [acc EXCEPT !.raised = serious.exc]
       ELSE IF minor.exc # "none" THEN [acc EXCEPT !.raised = minor.exc]
       ELSE IF ~Hashable(highest) \/ ~Hashable(state)
       THEN [acc EXCEPT !.raised = "TypeError"]
       ELSE LET sev == severity(fatal.v, serious.v, minor.v)
                t == acc.totals
            IN [raised |-> "none",
                totals |->
                  [accidents |-> t.accidents + 1,
                   fatal_accidents |-> t.fatal_accidents + sev.fatal_accidents,
                   serious_injury_accidents |->
                       t.serious_injury_accidents + sev.serious_injury_accidents,
                   minor_injury_accidents |->
                       t.minor_injury_accidents + sev.minor_injury_accidents,
                   no_injury_accidents |-> t.no_injury_accidents + sev.no_injury_accidents,
                   fatalities |-> t.fatalities + fatal.v,
                   serious_injuries |-> t.serious_injuries + serious.v,
                   minor_injuries |-> t.minor_injuries + minor.v],
                by_state |-> Increment(acc.by_state, state),
                by_highest_injury |-> Increment(acc.by_highest_injury, highest)]

\* the loop over cases from position i on; it ends at the first exception
RECURSIVE stats_loop(_, _, _)
stats_loop(cs, i, acc) ==
    IF i > Len(cs) \/ acc.raised # "none" THEN acc
    ELSE stats_loop(cs, i + 1, stats_step(acc, cs[i]))

generate_stats(cs) == stats_loop(cs, 1, EmptyStats)

\* records with the fields generate_stats reads missing, null, or of each
\* JSON type
StatsRecords ==
    <<JDict(("cm_fatalInjuryCount" :> JNum(1)) @@ ("cm_state" :> JStr(<<"O", "K">>))
            @@ ("cm_highestInjury" :> JStr(<<"F", "a", "t", "a", "l">>))),
      JDict(("cm_state" :> JStr(<<"T", "X">>))
            @@ ("cm_highestInjury" :> JStr(<<"N", "o", "n", "e">>))),
      JDict(("cm_fatalInjuryCount" :> JNum(2)) @@ ("cm_seriousInjuryCount" :> JNum(1))
            @@ ("cm_minorInjuryCount" :> JNum(1)) @@ ("cm_state" :> JStr(<<"O", "K">>))
            @@ ("cm_highestInjury" :> JStr(<<"F", "a", "t", "a", "l">>))),
      JDict(("cm_fatalInjuryCount" :> JNum(0)) @@ ("cm_seriousInjuryCount" :> JNum(1))
            @@ ("cm_state" :> JStr(<<"T", "X">>))
            @@ ("cm_highestInjury" :> JStr(<<"S", "e", "r", "i", "o", "u", "s">>))),
      JDict(("cm_fatalInjuryCount" :> None) @@ ("cm_seriousInjuryCount" :> None)
            @@ ("cm_minorInjuryCount" :> JNum(3)) @@ ("cm_state" :> JStr(<<>>))
            @@ ("cm_highestInjury" :> JStr(<<>>))),
      JDict(("cm_minorInjuryCount" :> JBool(TRUE)) @@ ("cm_seriousInjuryCount" :> JStr(<<>>))
            @@ ("cm_state" :> None) @@ ("cm_highestInjury" :> None)),
      JDict(<<>>),
      JDict(("cm_fatalInjuryCount" :> JStr(<<"x">>)) @@ ("cm_state" :> JStr(<<"O", "K">>))),
      JDict(("cm_seriousInjuryCount" :> JNum(2)) @@ ("cm_state" :> JNum(0))
            @@ ("cm_highestInjury" :> JBool(FALSE))),
      JDict(("cm_state" :> JStr(<<"U", "n", "k", "n", "o", "w", "n">>))
            @@ ("cm_highestInjury" :> JStr(<<"U", "n", "k", "n", "o", "w", "n">>))),
      JDict(("cm_fatalInjuryCount" :> JStr(<<" ", "2">>)) @@ ("cm_state" :> JStr(<<"O", "K">>))),
      JDict(("cm_minorInjuryCount" :> JNum(1)) @@ ("cm_state" :> JList(<<JNum(1)>>))),
      JDict(("cm_seriousInjuryCount" :> JDict("b" :> JNum(1)))
            @@ ("cm_minorInjuryCount" :> JStr(<<"x">>)))>>

StatsUniverse == {StatsRecords[i] : i \in DOMAIN StatsRecords}

InitStats ==
    /\ StreamIdle
    /\ ExtIdle
    /\ cases \in SeqUpTo(StatsUniverse, MaxCases)
    /\ field = <<>>
    /\ order = <<"a", "s", "c">>
    /\ filters = <<>>
    /\ out = <<>>
    /\ perm = <<>>
    /\ raised = "none"
    /\ stage = "input"

GenerateStats ==
    /\ stage = "input"
    /\ stage' = "aggregated"
    /\ stats' = generate_stats(cases)
    /\ raised' = generate_stats(cases).raised
    /\ UNCHANGED <<cases, field, order, filters, out, perm>>
    /\ UNCHANGED <<limit, offset, page, resolved, monthVars, routeVars, rateVars>>
    /\ UNCHANGED streamVars

NextStats == GenerateStats

SpecStats == InitStats /\ [][NextStats]_vars

(***************************************************************************)
(* The two get_nested_value functions on their own                         *)
(***************************************************************************)
MaxSegs == 3

\* the path string whose split gives the segments segs
RECURSIVE DotJoin(_)
DotJoin(segs) ==
    IF segs = <<>> THEN <<>>
    ELSE IF Len(segs) = 1 THEN segs[1]
    ELSE segs[1] \o <<".">> \o DotJoin(Tail(segs))

PathSegments ==
    {<<"a">>, <<"b">>, <<"x">>, <<>>, <<"0">>, <<"1">>, <<"2">>,
     <<"-", "1">>, <<" ", "1">>, <<"+", "0">>}

Paths == {DotJoin(segs) : segs \in SeqUpTo(PathSegments, MaxSegs)}

\* values with lists and dicts inside each other
NestedValues ==
    <<JDict(("a" :> JList(<<JDict("b" :> JNum(1)), JList(<<JNum(3)>>)>>))
            @@ ("0" :> JDict("" :> JNum(2)))),
      JList(<<JList(<<JNum(1)>>), JDict("a" :> None)>>)>>

ResolveUniverse == {SortRecords[1], SortRecords[5], SortRecords[8], SortRecords[9], NestedValues[1], NestedValues[2]}

InitResolve ==
    /\ StreamIdle
    /\ ExtIdle
    /\ cases \in {<<obj>> : obj \in ResolveUniverse}
    /\ field \in Paths
    /\ order = <<"a", "s", "c">>
    /\ filters = <<>>
    /\ out = <<>>
    /\ perm = <<>>
    /\ raised = "none"
    /\ stage = "input"

Resolve ==
    /\ stage = "input"
    /\ stage' = "resolved"
    /\ resolved' = [f |-> filter_get_nested_value(cases[1], field),
                    s |-> sort_get_nested_value(cases[1], field)]
    /\ UNCHANGED <<cases, field, order, filters, out, perm, raised>>
    /\ UNCHANGED <<limit, offset, page, stats, monthVars, routeVars, rateVars>>
    /\ UNCHANGED streamVars

NextResolve == Resolve

SpecResolve == InitResolve /\ [][NextResolve]_vars

(***************************************************************************)
(* stream_ntsb_zip_by_month and the payload of the date-range path         *)
(***************************************************************************)
\* variant: every fourth year is a leap year
isleap_EveryFourth(y) == y % 4 = 0

\* calendar.isleap, used by monthrange
isleap(y) == y % 4 = 0 /\ (y % 100 # 0 \/ y % 400 = 0)

\* calendar.mdays[1..12]
mdays == <<31, 28, 31, 30, 31, 30, 31, 31, 30, 31, 30, 31>>

\* monthrange(year, month)[1]
monthrange(y, m) == mdays[m] + (IF m = 2 /\ isleap(y) THEN 1 ELSE 0)

date(y, m, d) == [year |-> y, month |-> m, day |-> d]

\* n in decimal, zero-padded to w digits
RECURSIVE Pad(_, _)
Pad(n, w) == IF w = 0 THEN "" ELSE Pad(n \div 10, w - 1) \o Digits[(n % 10) + 1]

\* n >= 0 in decimal
RECURSIVE Decimal(_)
Decimal(n) == IF n < 10 THEN Digits[n + 1] ELSE Decimal(n \div 10) \o Digits[(n % 10) + 1]

\* d.strftime("%Y-%m-%d"): the C library's strftime, which on Linux writes
\* the year without padding (date(999, 1, 1) gives "999-01-01")
strftime(d) == Decimal(d.year) \o "-" \o Pad(d.month, 2) \o "-" \o Pad(d.day, 2)

selectedOption(fieldName, displayText, column, inputType) ==
    [FieldName |-> fieldName, DisplayText |-> displayText, Columns |-> <<column>>,
     Selectable |-> TRUE, InputType |-> inputType, RuleType |-> 0,
     Options |-> None, TargetCollection |-> "cases", UnderDevelopment |-> TRUE]

QueryRule(value, column, operator, option) ==
    [RuleType |-> "Simple", Values |-> <<value>>, Columns |-> <<column>>,
     Operator |-> operator, overrideColumn |-> "", selectedOption |-> option]

\* _build_date_range_payload
build_date_range_payload(start_date, end_date, m) ==
    LET start_str == strftime(start_date)
        end_str == strftime(end_date)
        eventDate == selectedOption("EventDate", "Event date", "Event.EventDate", "Date")
        modeOption == selectedOption("Mode", "Investigation mode", "Event.Mode", "Dropdown")
    IN [QueryGroups |->
           <<[QueryRules |->
                 <<QueryRule(start_str, "Event.EventDate", "is on or after", eventDate),
                   QueryRule(end_str, "Event.EventDate", "is on or before", eventDate),
                   QueryRule(m, "Event.Mode", "is", modeOption)>>,
              AndOr |-> "and",
              inLastSearch |-> FALSE,
              editedSinceLastSearch |-> FALSE]>>,
        AndOr |-> "and",
        TargetCollection |-> "cases",
        ExportFormat |-> "data",
        SessionId |-> 227230,
        ResultSetSize |-> 500,
        SortDescending |-> TRUE]

\* stream_ntsb_zip_by_month up to the payload that the date-range path,
\* which it delegates to, builds and hands to _stream_file_export
month_payload(y, mo, m) ==
    LET start_date == date(y, mo, 1)
        last_day == monthrange(y, mo)
        end_date == date(y, mo, last_day)
    IN build_date_range_payload(start_date, end_date, m)

Years == {1900, 2000, 2023, 2024, 2100}

Modes == {"Aviation", "Marine", "Highway", "Railroad", "Pipeline"}

InitMonth ==
    /\ StreamIdle
    /\ CoreIdle
    /\ PageIdle
    /\ RouteIdle
    /\ RateIdle
    /\ year \in Years
    /\ month \in 1..12
    /\ mode \in Modes
    /\ payload = <<>>

stream_ntsb_zip_by_month ==
    /\ payload = <<>>
    /\ payload' = month_payload(year, month, mode)
    /\ UNCHANGED <<year, month, mode>>
    /\ UNCHANGED <<cases, field, order, filters, out, perm, raised, stage>>
    /\ UNCHANGED <<limit, offset, page, stats, resolved, routeVars, rateVars>>
    /\ UNCHANGED streamVars

NextMonth == stream_ntsb_zip_by_month

SpecMonth == InitMonth /\ [][NextMonth]_vars

(***************************************************************************)
(* The routes /download/date-range, /download/month, /download/ntsb-number,*)
(* /download/mkey, /cases, /cases/search and /stats                        *)
(***************************************************************************)
DownloadEndpoints == {"date-range", "month", "ntsb-number", "mkey"}

JsonEndpoints == {"cases", "search", "stats"}

\* the request parameters of each route: dates as day numbers; sort_by <<>> is
\* an absent one
Requests(ep) ==
    LET cm_state == <<"c", "m", "_", "s", "t", "a", "t", "e">>
        CaseQuery == [start_date : 1..2, end_date : 1..2,
                      limit : {0, 1, 500, 501}, offset : {-1, 0, 1},
                      sort_by : {<<>>, cm_state},
                      order : {<<"a", "s", "c">>, <<"d", "e", "s", "c">>}]
    IN CASE ep \in {"date-range", "stats"} -> [start_date : 1..2, end_date : 1..2]
         [] ep = "month" -> [year : {1899, 1900, 2100, 2101}, month : {0, 1, 12, 13}]
         [] ep = "ntsb-number" ->
                [ntsb_num : {<<"C", "E", "N", "2", "5", "L", "A", "1", "7", "3">>}]
         [] ep = "mkey" -> [mkey : {1, 2}]
         [] ep = "cases" -> CaseQuery
         [] ep = "search" ->
                {[start_date |-> q.start_date, end_date |-> q.end_date,
                  limit |-> q.limit, offset |-> q.offset,
                  sort_by |-> q.sort_by, order |-> q.order, filters |-> f] :
                     q \in CaseQuery,
                     f \in {<<>>, <<[k |-> cm_state, v |-> JStr(<<"O", "K">>)]>>}}

\* a member of the archive: its name and what json.loads makes of its data
File(name, ok, v) == [name |-> name, ok |-> ok, v |-> v]

JsonName == <<"c", ".", "j", "s", "o", "n">>

\* bytes that are no ZIP archive
NoArchive == [zip |-> FALSE, files |-> <<>>]

\* an archive whose second member is the JSON file, with two records
TwoCases ==
    [zip |-> TRUE, files |-> <<File(<<"r", ".", "t", "x", "t">>, FALSE, None),
                               File(JsonName, TRUE, JList(<<StatsRecords[1], StatsRecords[2]>>))>>]

\* what the downloaded bytes are: a ZIP archive with members, or no archive
Archives ==
    {NoArchive,
     [zip |-> TRUE, files |-> <<>>],
     [zip |-> TRUE, files |-> <<File(<<"r", ".", "t", "x", "t">>, TRUE, JList(<<StatsRecords[1]>>))>>],
     [zip |-> TRUE, files |-> <<File(<<"a", ".", "J", "S", "O", "N">>, TRUE, JList(<<StatsRecords[1]>>))>>],
     [zip |-> TRUE, files |-> <<File(<<"j", "s", "o", "n">>, TRUE, JList(<<StatsRecords[1]>>))>>],
     TwoCases,
     [zip |-> TRUE, files |-> <<File(JsonName, TRUE, JList(<<StatsRecords[1], StatsRecords[4], StatsRecords[2]>>)),
                                File(<<".", "j", "s", "o", "n">>, TRUE, JNum(1))>>],
     [zip |-> TRUE, files |-> <<File(JsonName, TRUE, JList(<<>>))>>],
     [zip |-> TRUE, files |-> <<File(JsonName, TRUE, JDict("error" :> JStr(<<"x">>)))>>],
     [zip |-> TRUE, files |-> <<File(JsonName, TRUE, None)>>],
     [zip |-> TRUE, files |-> <<File(JsonName, FALSE, None)>>],
     [zip |-> TRUE, files |-> <<File(JsonName, TRUE, JList(<<StatsRecords[8]>>))>>],
     [zip |-> TRUE, files |-> <<File(JsonName, TRUE, JList(<<StatsRecords[1], StatsRecords[9]>>))>>]}

\* what the NTSB service does with one request of the stream client: the
\* response gives the chunks (their lengths) and ends ("ok") or fails after
\* them; ConnectError, ConnectTimeout and an error status come before any
\* chunk.  response.aiter_bytes() yields no empty chunk: every length is > 0,
\* and a body without bytes is a response without chunks.
AttemptOutcomes ==
    [kind : {"ok"}, status : {200}, chunks : {<<>>, <<3>>, <<2, 1>>}]
    \cup [kind : {"ReadTimeout"}, status : {200}, chunks : {<<>>, <<2>>}]
    \cup [kind : {"RemoteProtocolError", "ReadError"}, status : {200}, chunks : {<<2>>}]
    \cup [kind : {"ConnectError", "ConnectTimeout"}, status : {0}, chunks : {<<>>}]
    \cup [kind : {"HTTPStatusError"}, status : {404, 500}, chunks : {<<>>}]

\* the answers to the requests of one stream: every attempt but the last
\* fails with an error _stream_file_export retries, the last one ends the
\* stream or fails with the error it raises
Scripts ==
    UNION {{sc \in [1..k -> AttemptOutcomes] :
                /\ \A i \in 1..(k - 1) :
                       /\ sc[i].kind # "ok"
                       /\ HandleExc(sc[i].kind, sc[i].status, i) = "retry"
                /\ \/ sc[k].kind = "ok"
                   \/ HandleExc(sc[k].kind, sc[k].status, k) = "raise"} :
           k \in 1..MAX_RETRIES}

\* the chunks the attempts hand on, in order: line 119 yields each chunk as it
\* arrives, also those of an attempt that fails later
RECURSIVE AllChunks(_)
AllChunks(attempts) ==
    IF attempts = <<>> THEN <<>>
    ELSE Head(attempts).chunks \o AllChunks(Tail(attempts))

\* what the bytes collected from a script can be: nothing to open when the
\* stream fails or is empty; every archive after one attempt, two of them
\* after a retry
ArchivesOf(sc) ==
    IF sc[Len(sc)].kind # "ok" \/ AllChunks(sc) = <<>>
    THEN {NoArchive}
    ELSE IF Len(sc) = 1 THEN Archives
    ELSE {NoArchive, TwoCases}

\* what the NTSB service does with the requests of one stream, and what the
\* bytes of the stream are
Upstreams ==
    {u \in [attempts : Scripts, archive : Archives] :
        u.archive \in ArchivesOf(u.attempts)}

\* the chunks the stream has handed on when attempt k has been read to its end
Handed(k) == AllChunks(SubSeq(upstream.attempts, 1, k))

\* str.endswith
EndsWith(cs, suffix) ==
    /\ Len(cs) >= Len(suffix)
    /\ SubSeq(cs, Len(cs) - Len(suffix) + 1, Len(cs)) = suffix

\* variant: an archive without a JSON member gives None
extract_json_from_zip_NoneIfMissing(archive) ==
    IF ~archive.zip THEN [exc |-> "BadZipFile", v |-> None]
    ELSE LET json_files ==
                 SelectSeq(archive.files,
                           LAMBDA f : EndsWith(f.name, <<".", "j", "s", "o", "n">>))
         IN IF json_files = <<>> THEN [exc |-> "none", v |-> None]
            ELSE IF ~json_files[1].ok THEN [exc |-> "JSONDecodeError", v |-> None]
            ELSE [exc |-> "none", v |-> json_files[1].v]

\* DataProcessor.extract_json_from_zip: the value returned or the exception
extract_json_from_zip(archive) ==
    IF ~archive.zip THEN [exc |-> "BadZipFile", v |-> None]
    ELSE LET json_files ==
                 SelectSeq(archive.files,
                           LAMBDA f : EndsWith(f.name, <<".", "j", "s", "o", "n">>))
         IN IF json_files = <<>> THEN [exc |-> "none", v |-> JList(<<>>)]
            ELSE IF ~json_files[1].ok THEN [exc |-> "JSONDecodeError", v |-> None]
            ELSE [exc |-> "none", v |-> json_files[1].v]

\* main.http_exception_handler
http_exception_handler(status_code, detail) ==
    [status |-> status_code, detail |-> detail, body |-> <<>>]

\* main.unhandled_exception_handler
unhandled_exception_handler ==
    [status |-> 500, detail |-> "Internal server error", body |-> <<>>]

\* the framework's answer to a parameter that fails its declared constraints
RequestValidationError ==
    [exc |-> "RequestValidationError",
     response |-> [status |-> 422, detail |-> "validation error", body |-> <<>>]]

\* variant: the validator accepts every pair of dates
end_after_start_Accepts(v, start) == FALSE

\* the validator of CaseQuery and DateRangeFilter raises ValueError
end_after_start(v, start) == v < start

\* the ways the request is refused before the handler body runs, none if it
\* is accepted.  A validator failure of a model built by Depends() is
\* answered by the framework (422) or by unhandled_exception_handler (500),
\* depending on how the framework wraps the error of the dependency.
Rejections(ep, rq) ==
    IF ep = "date-range"
    THEN IF rq.start_date > rq.end_date
         THEN {[exc |-> "HTTPException",
                response |-> http_exception_handler(
                    400, "start_date must be before or equal to end_date")]}
         ELSE {}
    ELSE IF ep = "month"
    THEN IF rq.year < 1900 \/ rq.year > 2100 \/ rq.month < 1 \/ rq.month > 12
         THEN {RequestValidationError}
         ELSE {}
    ELSE IF ep \in {"ntsb-number", "mkey"}
    THEN {}
    ELSE IF ep \in {"cases", "search"} /\ (rq.limit < 1 \/ rq.limit > 500 \/ rq.offset < 0)
    THEN {RequestValidationError}
    ELSE IF end_after_start(rq.end_date, rq.start_date)
    THEN IF ep = "search" THEN {RequestValidationError}
         ELSE {RequestValidationError,
               [exc |-> "ValidationError", response |-> unhandled_exception_handler]}
    ELSE {}

\* variant: an empty buffer is returned like any other
download_zip_bytes_NoCheck(b) == [exc |-> "none", response |-> <<>>]

\* lines 25-30 of _download_zip_bytes: `if not buf`
download_zip_bytes(b) ==
    IF b = 0
    THEN [exc |-> "HTTPException",
          response |-> http_exception_handler(
              502, "Empty response from NTSB FileExport service")]
    ELSE [exc |-> "none", response |-> <<>>]

\* what no action of a route changes
routeFixed == <<streamVars, monthVars, rateVars, field, order, filters, perm, stage,
                limit, offset, resolved, endpoint, request, upstream>>

InitRoute ==
    /\ StreamIdle
    /\ MonthIdle
    /\ RateIdle
    /\ CoreIdle
    /\ PageIdle
    /\ endpoint \in DownloadEndpoints \cup JsonEndpoints
    /\ request \in Requests(endpoint)
    /\ upstream \in Upstreams
    /\ rpc = "received"
    /\ calls = 0
    /\ received = 0
    /\ buf = 0
    /\ invoked = <<>>
    /\ response = <<>>

\* parameter validation by the framework, the model validators and, for
\* /download/date-range, lines 23-27 of the handler
Validate ==
    /\ rpc = "received"
    /\ IF Rejections(endpoint, request) = {}
       THEN /\ rpc' = "accepted"
            /\ UNCHANGED <<raised, response>>
       ELSE \E r \in Rejections(endpoint, request) :
                /\ rpc' = "done"
                /\ raised' = r.exc
                /\ response' = r.response
    /\ UNCHANGED <<cases, out, page, stats, calls, received, buf, invoked>>
    /\ UNCHANGED routeFixed

\* the download handlers create the stream object, which sends nothing yet,
\* and return their StreamingResponse: the status line goes out before the
\* stream is iterated
ReturnStreamingResponse ==
    /\ rpc = "accepted"
    /\ endpoint \in DownloadEndpoints
    /\ rpc' = "returned"
    /\ response' = [status |-> 200, detail |-> "application/zip", body |-> <<>>]
    /\ UNCHANGED <<cases, out, page, stats, raised, calls, received, buf, invoked>>
    /\ UNCHANGED routeFixed

\* the first item of the stream is asked for, by _download_zip_bytes or by
\* the StreamingResponse: the first upstream request goes out
StartStream ==
    /\ \/ rpc = "accepted" /\ endpoint \in JsonEndpoints
       \/ rpc = "returned" /\ endpoint \in {"date-range", "month"}
    /\ rpc' = "streaming"
    /\ calls' = calls + 1
    /\ UNCHANGED <<cases, out, page, stats, raised, received, buf, invoked, response>>
    /\ UNCHANGED routeFixed

\* _stream_file_export: the attempt failed, before or after chunks, with an
\* error that is retried; after the backoff sleep the next request goes out
RetryUpstream ==
    /\ rpc = "streaming"
    /\ received = Len(Handed(calls))
    /\ upstream.attempts[calls].kind # "ok"
    /\ HandleExc(upstream.attempts[calls].kind, upstream.attempts[calls].status, calls)
           = "retry"
    /\ calls' = calls + 1
    /\ UNCHANGED <<cases, out, page, stats, raised, rpc, received, buf, invoked, response>>
    /\ UNCHANGED routeFixed

\* stream_ntsb_zip_by_ntsb_number / stream_ntsb_zip_by_mkey: the first item
\* is asked for and the generator raises, with no upstream request
PlaceholderRaises ==
    /\ rpc = "returned"
    /\ endpoint \in {"ntsb-number", "mkey"}
    /\ rpc' = "done"
    /\ raised' = "NotImplementedError"
    /\ UNCHANGED <<cases, out, page, stats, calls, received, buf, invoked, response>>
    /\ UNCHANGED routeFixed

\* async for chunk in stream: buf.extend(chunk) in _download_zip_bytes; the
\* StreamingResponse sends the chunk on as body
ReceiveChunk ==
    /\ rpc = "streaming"
    /\ received < Len(Handed(calls))
    /\ received' = received + 1
    /\ IF endpoint \in DownloadEndpoints
       THEN /\ response' = [response EXCEPT
                                !.body = Append(@, Handed(calls)[received + 1])]
            /\ buf' = buf
       ELSE /\ buf' = buf + Handed(calls)[received + 1]
            /\ response' = response
    /\ UNCHANGED <<cases, out, page, stats, raised, rpc, calls, invoked>>
    /\ UNCHANGED routeFixed

\* the stream ends
StreamEnds ==
    /\ rpc = "streaming"
    /\ received = Len(Handed(calls))
    /\ upstream.attempts[calls].kind = "ok"
    /\ IF endpoint \in DownloadEndpoints \/ download_zip_bytes(buf).exc = "none"
       THEN /\ rpc' = IF endpoint \in DownloadEndpoints THEN "done" ELSE "drained"
            /\ UNCHANGED <<raised, response>>
       ELSE /\ rpc' = "done"
            /\ raised' = download_zip_bytes(buf).exc
            /\ response' = download_zip_bytes(buf).response
    /\ UNCHANGED <<cases, out, page, stats, calls, received, buf, invoked>>
    /\ UNCHANGED routeFixed

\* the stream raises what _stream_file_export raised; a download route has
\* already sent its status line, the JSON routes let the exception through
StreamRaises ==
    /\ rpc = "streaming"
    /\ received = Len(Handed(calls))
    /\ upstream.attempts[calls].kind # "ok"
    /\ HandleExc(upstream.attempts[calls].kind, upstream.attempts[calls].status, calls)
           = "raise"
    /\ rpc' = "done"
    /\ raised' = upstream.attempts[calls].kind
    /\ response' = IF endpoint \in DownloadEndpoints THEN response
                   ELSE unhandled_exception_handler
    /\ UNCHANGED <<cases, out, page, stats, calls, received, buf, invoked>>
    /\ UNCHANGED routeFixed

\* processor.extract_json_from_zip(zip_bytes) and the isinstance check
Extract ==
    /\ rpc = "drained"
    /\ invoked' = <<"extract_json_from_zip">>
    /\ LET r == extract_json_from_zip(upstream.archive)
       IN IF r.exc # "none"
          THEN /\ rpc' = "done"
               /\ raised' = r.exc
               /\ response' = unhandled_exception_handler
               /\ UNCHANGED cases
          ELSE IF r.v.t # "list"
          THEN /\ rpc' = "done"
               /\ raised' = "HTTPException"
               /\ response' = http_exception_handler(
                      502, "Unexpected JSON structure from NTSB export (expected a list)")
               /\ UNCHANGED cases
          ELSE /\ rpc' = "extracted"
               /\ cases' = r.v.items
               /\ UNCHANGED <<raised, response>>
    /\ out' = cases'
    /\ UNCHANGED <<page, stats, calls, received, buf>>
    /\ UNCHANGED routeFixed

\* search_cases line 104: filter_cases(cases, payload.filters or {}); the
\* other routes have no such step
RouteFilter ==
    /\ rpc = "extracted"
    /\ rpc' = "filtered"
    /\ IF endpoint = "search"
       THEN /\ out' = filter_cases(out, request.filters)
            /\ invoked' = Append(invoked, "filter_cases")
       ELSE UNCHANGED <<out, invoked>>
    /\ UNCHANGED <<cases, page, stats, raised, calls, received, buf, response>>
    /\ UNCHANGED routeFixed

\* get_cases lines 64-65, search_cases lines 107-108: sort_cases when
\* sort_by is given; /stats does not sort
RouteSort ==
    /\ rpc = "filtered"
    /\ IF endpoint = "stats" \/ request.sort_by = <<>>
       THEN /\ rpc' = "sorted"
            /\ UNCHANGED <<out, invoked, raised, response>>
       ELSE /\ invoked' = Append(invoked, "sort_cases")
            /\ IF SortRaises(out, request.sort_by, request.order)
               THEN /\ rpc' = "done"
                    /\ raised' = "TypeError"
                    /\ response' = unhandled_exception_handler
                    /\ UNCHANGED out
               ELSE /\ rpc' = "sorted"
                    /\ out' = sort_cases(out, request.sort_by, request.order)
                    /\ UNCHANGED <<raised, response>>
    /\ UNCHANGED <<cases, page, stats, calls, received, buf>>
    /\ UNCHANGED routeFixed

\* variant: the statistics are taken over the returned page
RouteRespond_StatsOfPage ==
    /\ rpc = "sorted"
    /\ rpc' = "done"
    /\ page' = IF endpoint = "stats" THEN page
               ELSE paginate(out, request.limit, request.offset)
    /\ invoked' = invoked \o (IF endpoint = "stats" THEN <<>> ELSE <<"paginate">>)
                          \o <<"generate_stats">>
    /\ LET shown == IF endpoint = "stats" THEN out ELSE page'.items
       IN IF generate_stats(shown).raised # "none"
          THEN /\ raised' = generate_stats(shown).raised
               /\ response' = unhandled_exception_handler
               /\ UNCHANGED stats
          ELSE /\ stats' = generate_stats(shown)
               /\ response' = [status |-> 200, detail |-> "",
                               body |-> IF endpoint = "stats" THEN [stats |-> stats']
                                        ELSE [data |-> page'.items,
                                              pagination |-> page'.pagination,
                                              stats |-> stats']]
               /\ UNCHANGED raised
    /\ UNCHANGED <<cases, out, calls, received, buf>>
    /\ UNCHANGED routeFixed

\* paginate (not on /stats), generate_stats and the response
RouteRespond ==
    /\ rpc = "sorted"
    /\ rpc' = "done"
    /\ page' = IF endpoint = "stats" THEN page
               ELSE paginate(out, request.limit, request.offset)
    /\ invoked' = invoked \o (IF endpoint = "stats" THEN <<>> ELSE <<"paginate">>)
                          \o <<"generate_stats">>
    /\ IF generate_stats(out).raised # "none"
       THEN /\ raised' = generate_stats(out).raised
            /\ response' = unhandled_exception_handler
            /\ UNCHANGED stats
       ELSE /\ stats' = generate_stats(out)
            /\ response' = [status |-> 200, detail |-> "",
                            body |-> IF endpoint = "stats" THEN [stats |-> stats']
                                     ELSE [data |-> page'.items,
                                           pagination |-> page'.pagination,
                                           stats |-> stats']]
            /\ UNCHANGED raised
    /\ UNCHANGED <<cases, out, calls, received, buf>>
    /\ UNCHANGED routeFixed

NextRoute ==
    \/ Validate
    \/ ReturnStreamingResponse
    \/ StartStream
    \/ RetryUpstream
    \/ PlaceholderRaises
    \/ ReceiveChunk
    \/ StreamEnds
    \/ StreamRaises
    \/ Extract
    \/ RouteFilter
    \/ RouteSort
    \/ RouteRespond

SpecRoute == InitRoute /\ [][NextRoute]_vars

(***************************************************************************)
(* main.rate_limit_middleware                                              *)
(***************************************************************************)
RATE_LIMIT_MAX_REQUESTS == 60
RATE_LIMIT_WINDOW_SECONDS == 60

\* clock readings are whole ticks, so that int() has a fraction to drop
TicksPerSecond == 2

\* requests of one window the model lets arrive beyond the limit
MaxOver == 2

\* requests of one client IP that are inside call_next at the same time
MaxHandling == 1

ClientIPs == {"10.0.0.1", "unknown"}

\* the clock readings of the model
Times ==
    LET w == RATE_LIMIT_WINDOW_SECONDS * TicksPerSecond
    IN {0, 1, w, w + 1, 2 * w}

\* lines 68-73: the entry of client_ip after the lookup, the reset of an
\* absent or expired entry, and the increment
counted_entry(client_ip) ==
    LET fresh == client_ip \notin DOMAIN store \/ store[client_ip].reset <= now
        entry == IF fresh
                 THEN [reset |-> now + RATE_LIMIT_WINDOW_SECONDS * TicksPerSecond,
                       count |-> 0]
                 ELSE store[client_ip]
    IN [entry EXCEPT !.count = @ + 1]

\* variant: the count is compared before it is incremented
over_limit_BeforeIncrement(entry) == entry.count - 1 > RATE_LIMIT_MAX_REQUESTS

\* line 74
over_limit(entry) == entry.count > RATE_LIMIT_MAX_REQUESTS

\* line 75: max(0, int(entry["reset"] - now)), int() rounding towards zero
retry_after(entry) ==
    LET d == entry.reset - now
        seconds == IF d >= 0 THEN d \div TicksPerSecond
                   ELSE 0 - ((0 - d) \div TicksPerSecond)
    IN IF seconds > 0 THEN seconds ELSE 0

InitRate ==
    /\ StreamIdle
    /\ CoreIdle
    /\ PageIdle
    /\ MonthIdle
    /\ RouteIdle
    /\ store = <<>>
    /\ now = 0
    /\ handling = [ip \in ClientIPs |-> 0]
    /\ passed = [ip \in ClientIPs |-> 0]
    /\ last = <<>>

\* lines 64-84 up to the await of call_next, which run without giving up the
\* event loop: one request of client_ip is counted and either answered with
\* 429 or passed on
rate_limit_middleware(client_ip) ==
    LET entry == counted_entry(client_ip)
        fresh == client_ip \notin DOMAIN store \/ store[client_ip].reset <= now
        since == IF fresh THEN 0 ELSE passed[client_ip]
    IN /\ entry.count <= RATE_LIMIT_MAX_REQUESTS + MaxOver
       /\ store' = (client_ip :> entry) @@ store
       /\ IF over_limit(entry)
          THEN /\ last' = [ip |-> client_ip, limited |-> TRUE,
                           retry_after |-> retry_after(entry)]
               /\ passed' = [passed EXCEPT ![client_ip] = since]
               /\ UNCHANGED handling
          ELSE /\ handling[client_ip] < MaxHandling
               /\ last' = [ip |-> client_ip, limited |-> FALSE, retry_after |-> 0]
               /\ passed' = [passed EXCEPT ![client_ip] = since + 1]
               /\ handling' = [handling EXCEPT ![client_ip] = @ + 1]
       /\ UNCHANGED now
       /\ UNCHANGED <<streamVars, cases, field, order, filters, out, perm, raised, stage>>
       /\ UNCHANGED <<limit, offset, page, stats, resolved, monthVars, routeVars>>

\* lines 85-86: call_next returns and the response is handed back
CallNextReturns(client_ip) ==
    /\ handling[client_ip] > 0
    /\ handling' = [handling EXCEPT ![client_ip] = @ - 1]
    /\ UNCHANGED <<store, now, passed, last>>
    /\ UNCHANGED <<streamVars, cases, field, order, filters, out, perm, raised, stage>>
    /\ UNCHANGED <<limit, offset, page, stats, resolved, monthVars, routeVars>>

\* time passes
ClockAdvances ==
    /\ \E t \in Times : t > now /\ now' = t
    /\ UNCHANGED <<store, handling, passed, last>>
    /\ UNCHANGED <<streamVars, cases, field, order, filters, out, perm, raised, stage>>
    /\ UNCHANGED <<limit, offset, page, stats, resolved, monthVars, routeVars>>

NextRate ==
    \/ \E client_ip \in ClientIPs : rate_limit_middleware(client_ip)
    \/ \E client_ip \in ClientIPs : CallNextReturns(client_ip)
    \/ ClockAdvances

SpecRate == InitRate /\ [][NextRate]_vars

(***************************************************************************)
(* Properties of the streaming client                                      *)
(***************************************************************************)
TransientFailure(o) == o.kind \in RetryableTransport

Is5xx(status) == 500 <= status /\ status < 600

\* C1: the caller never receives partial data: when the stream has ended,
\* the chunks received are exactly the body of the successful attempt, and
\* when an error was raised no chunk of a failed attempt was delivered.
C1_NoPartialData ==
    /\ pc = "done" => delivered = Body(posts)
    /\ pc = "error" => \A i \in DOMAIN delivered : script[delivered[i][1]].kind = "ok"

\* C2: when the upstream fails transiently on exactly the first two attempts
\* and succeeds on the third, no error is raised to the caller, the stream
\* completes on attempt 3 and no fourth request is issued.
C2_ThirdAttemptSucceeds ==
    (/\ op = "date_range"
     /\ TransientFailure(script[1])
     /\ TransientFailure(script[2])
     /\ script[3].kind = "ok")
    => /\ err = NoErr
       /\ pc # "error"
       /\ posts <= 3
       /\ (pc = "done" => posts = 3 /\ attempt = 3)

C2_Witness ==
    /\ op = "date_range"
    /\ script[1].kind = "ConnectError"
    /\ script[2].kind = "ReadTimeout"
    /\ script[3].kind = "ok"
    /\ pc = "done"
    /\ posts = 3
    /\ Len(sleeps) = 2

\* C3: at most MAX_RETRIES requests are issued for one call whatever the mix
\* of transport and 5xx failures, and after the last permitted attempt has
\* failed the caller gets the error of that attempt.
C3_AttemptCap ==
    /\ posts <= MAX_RETRIES
    /\ posts = MAX_RETRIES =>
         /\ pc \in {"connecting", "streaming", "closing", "closed", "done", "cancelled",
                    "error"}
         /\ (pc = "error" => err = ErrOf(script[MAX_RETRIES], MAX_RETRIES))

C3_Witness ==
    /\ pc = "error"
    /\ posts = MAX_RETRIES
    /\ script[1].kind = "HTTPStatusError"
    /\ script[2].kind = "RemoteProtocolError"
    /\ script[3].kind = "HTTPStatusError"
    /\ Is5xx(script[3].status)

\* C4: an error status that is not 5xx is never retried: the request that
\* got it is the last one, no backoff sleep follows it and the status error
\* is raised to the caller, whatever the attempt number.
C4_NoRetryOnOtherStatus ==
    \A k \in 1..posts :
        (script[k].kind = "HTTPStatusError" /\ ~Is5xx(script[k].status))
        => /\ posts = k
           /\ pc \in {"connecting", "closing", "closed", "error", "cancelled"}
           /\ (pc = "error" => err = ErrOf(script[k], k))
           /\ Len(sleeps) = k - 1

C4_Witness ==
    /\ pc = "error"
    /\ posts = 2
    /\ script[2].kind = "HTTPStatusError"
    /\ script[2].status = 404
    /\ Len(sleeps) = 1

\* C5: once the calling context has cancelled, no further request, attempt
\* or backoff sleep follows and no connection is opened, and the generator
\* comes to its end with the connection of the attempt in progress released.
C5_NoRetryAfterCancel ==
    /\ [][cancelled => (/\ posts' = posts
                        /\ attempt' = attempt
                        /\ sleeps' = sleeps
                        /\ (connOpen' => connOpen))]_vars
    /\ cancelled ~> (pc = "cancelled" /\ ~connOpen)

C5_Witness ==
    /\ cancelled
    /\ pc = "cancelled"
    /\ ~connOpen
    /\ posts = 2
    /\ sent = 1
    /\ attempt < MAX_RETRIES

\* C6: a placeholder lookup raises the not-supported error on its first
\* step, before any chunk is yielded, and never issues an upstream request.
C6_PlaceholdersFail ==
    op \in Placeholders
    => /\ posts = 0
       /\ delivered = <<>>
       /\ ~connOpen
       /\ pc \in {"start", "error"}
       /\ (pc = "error" => err.kind = "NotImplementedError")

C6_Witness ==
    /\ op = "mkey"
    /\ pc = "error"
    /\ err.kind = "NotImplementedError"

(***************************************************************************)
(* Properties of sort_cases                                                *)
(***************************************************************************)
Resolved(case) == sort_get_nested_value(case, field)

\* C7: in the list sort_cases returns, every record whose resolved value is
\* absent or null comes after every record whose resolved value is present,
\* for either order.
C7_NullsLast ==
    (stage = "sorted" /\ raised = "none")
    => \A i, j \in DOMAIN out :
           (Resolved(out[i]) = None /\ Resolved(out[j]) # None) => j < i

\* C8: sort_cases is stable in both orders: records with equal sort keys
\* (absent/null ones included) keep their input order, and sorting the
\* result again with the same path and order returns it unchanged.
C8_StableSort ==
    (stage = "sorted" /\ raised = "none")
    => /\ \A i, j \in DOMAIN out :
              (i < j /\ KeyEq(sort_key(out[i], field), sort_key(out[j], field)))
              => perm[i] < perm[j]
       /\ ~SortRaises(out, field, order)
       /\ sort_cases(out, field, order) = out

C8_Witness ==
    /\ stage = "sorted"
    /\ raised = "none"
    /\ Lower(order) = <<"d", "e", "s", "c">>
    /\ field = <<"a">>
    /\ Len(out) = 3
    /\ perm # Identity(3)
    /\ \E i, j \in DOMAIN out :
           /\ i < j
           /\ out[i] # out[j]
           /\ KeyEq(sort_key(out[i], field), sort_key(out[j], field))

(***************************************************************************)
(* Properties of filter_cases                                              *)
(***************************************************************************)
IsScalar(v) == v.t \in {"bool", "num", "str"}

\* the predicate (path, expected) holds of the record
PredicateHolds(case, item) ==
    IF item.v.t = "list"
    THEN \E e \in {item.v.items[i] : i \in DOMAIN item.v.items} :
             PyEq(filter_get_nested_value(case, item.k), e)
    ELSE PyEq(filter_get_nested_value(case, item.k), item.v)

\* C9: with non-null scalar expected values, a record is kept iff every
\* resolved value is the expected value with the same JSON type (boolean
\* true is not number 1); a path that resolves to absent never matches.
C9_TypeSensitiveEquality ==
    (stage = "filtered" /\ \A i \in DOMAIN filters : IsScalar(filters[i].v))
    => LET Strict(c) == \A i \in DOMAIN filters :
                            filter_get_nested_value(c, filters[i].k) = filters[i].v
       IN out = SelectSeq(cases, Strict)

\* C10: filter_cases returns, in input order, exactly the records for which
\* every predicate with a non-null expected value holds; an empty filter set
\* or one with only null values returns the input unchanged.
C10_Conjunction ==
    stage = "filtered"
    => LET All(c) == \A i \in DOMAIN filters :
                         filters[i].v # None => PredicateHolds(c, filters[i])
       IN /\ out = SelectSeq(cases, All)
          /\ (\A i \in DOMAIN filters : filters[i].v = None) => out = cases

C10_Witness ==
    /\ stage = "filtered"
    /\ Len(filters) = 2
    /\ filters[1].v # None
    /\ filters[2].v # None
    /\ Len(cases) = 3
    /\ Len(out) = 1
    /\ \E i \in DOMAIN cases :
           PredicateHolds(cases[i], filters[1]) /\ ~PredicateHolds(cases[i], filters[2])

(***************************************************************************)
(* Properties of paginate                                                  *)
(***************************************************************************)
Min(a, b) == IF a < b THEN a ELSE b

Max(a, b) == IF a > b THEN a ELSE b

\* C11: for limit >= 1 and offset >= 0, items are the records at positions
\* offset .. offset+limit-1 that exist, their number is
\* max(0, min(limit, total - offset)) when offset < total and 0 otherwise,
\* total is len(records) whatever limit and offset are, and no error occurs.
C11_PaginateSlice ==
    (stage = "paginated" /\ limit >= 1 /\ offset >= 0)
    => /\ raised = "none"
       /\ page.pagination.total = Len(cases)
       /\ Len(page.items) = (IF offset < page.pagination.total
                             THEN Max(0, Min(limit, page.pagination.total - offset))
                             ELSE 0)
       /\ \A i \in 1..Len(page.items) : page.items[i] = cases[offset + i]
       /\ page.pagination.limit = limit
       /\ page.pagination.offset = offset

C11_Witness ==
    /\ stage = "paginated"
    /\ Len(cases) = 3
    /\ offset = 1
    /\ limit = 4
    /\ Len(page.items) = 2
    /\ page.items[1] # page.items[2]

(***************************************************************************)
(* Properties of generate_stats                                            *)
(***************************************************************************)
\* an injury count as the claims read it: the number, or the number a string
\* spells; missing, null or empty is 0
CountOf(case, key) ==
    LET v == DictGet(case, key)
    IN IF v.t \in {"num", "bool"} THEN v.n
       ELSE IF v.t = "str" /\ PyInt(v.s).ok THEN PyInt(v.s).v
       ELSE 0

\* the one severity bucket of a record: the first count > 0 wins
BucketOf(case) ==
    IF CountOf(case, "cm_fatalInjuryCount") > 0 THEN "fatal_accidents"
    ELSE IF CountOf(case, "cm_seriousInjuryCount") > 0 THEN "serious_injury_accidents"
    ELSE IF CountOf(case, "cm_minorInjuryCount") > 0 THEN "minor_injury_accidents"
    ELSE "no_injury_accidents"

InBucket(b) == Cardinality({i \in DOMAIN cases : BucketOf(cases[i]) = b})

\* C12: every record is counted in exactly one severity bucket, chosen by
\* fatal > serious > minor > none, so accidents is the sum of the four
\* buckets and a record with fatal > 0 and serious > 0 counts as fatal only.
C12_OneSeverityBucket ==
    (stage = "aggregated" /\ raised = "none")
    => LET t == stats.totals
       IN /\ t.accidents = Len(cases)
          /\ t.accidents = t.fatal_accidents + t.serious_injury_accidents
                           + t.minor_injury_accidents + t.no_injury_accidents
          /\ t.fatal_accidents = InBucket("fatal_accidents")
          /\ t.serious_injury_accidents = InBucket("serious_injury_accidents")
          /\ t.minor_injury_accidents = InBucket("minor_injury_accidents")
          /\ t.no_injury_accidents = InBucket("no_injury_accidents")

C12_Witness ==
    /\ stage = "aggregated"
    /\ raised = "none"
    /\ cases = <<StatsRecords[3], StatsRecords[4], StatsRecords[2]>>
    /\ stats.totals.fatal_accidents = 1
    /\ stats.totals.serious_injury_accidents = 1
    /\ stats.totals.no_injury_accidents = 1

RECURSIVE SumCounts(_)
SumCounts(d) == IF d = <<>> THEN 0 ELSE Head(d).n + SumCounts(Tail(d))

\* the counter of key in a dict kept as items, 0 when the key is not there
CountFor(d, key) ==
    IF \E i \in DOMAIN d : d[i].k = key
    THEN (CHOOSE e \in {d[i] : i \in DOMAIN d} : e.k = key).n
    ELSE 0

\* the bucket key when only a missing, null or empty field gives "Unknown"
KeyIfEmpty(case, key) ==
    LET v == DictGet(case, key)
    IN IF v = None \/ v = JStr(<<>>) \/ v = JList(<<>>) \/ v = JDict(<<>>)
       THEN JStr(<<"U", "n", "k", "n", "o", "w", "n">>) ELSE v

\* the bucket key when every falsy field value gives "Unknown"
KeyIfFalsy(case, key) ==
    LET v == DictGet(case, key) IN IF PyTruthy(v) THEN v ELSE JStr(<<"U", "n", "k", "n", "o", "w", "n">>)

\* each record adds one to the counter of its key and to no other, for both
\* groupings; hence both groupings sum to the number of accidents
GroupedBy(KeyOf(_, _)) ==
    /\ \A i \in DOMAIN cases :
           /\ CountFor(stats.by_state, KeyOf(cases[i], "cm_state"))
                = Cardinality({j \in DOMAIN cases :
                      KeyOf(cases[j], "cm_state") = KeyOf(cases[i], "cm_state")})
           /\ CountFor(stats.by_highest_injury, KeyOf(cases[i], "cm_highestInjury"))
                = Cardinality({j \in DOMAIN cases :
                      KeyOf(cases[j], "cm_highestInjury")
                        = KeyOf(cases[i], "cm_highestInjury")})
    /\ SumCounts(stats.by_state) = stats.totals.accidents
    /\ SumCounts(stats.by_highest_injury) = stats.totals.accidents

\* C13 as stated: the key is "Unknown" exactly when the field is missing,
\* null or empty, and the field's own value otherwise.
C13_UnknownWhenEmpty ==
    (stage = "aggregated" /\ raised = "none") => GroupedBy(KeyIfEmpty)

\* C13 amended: the key is "Unknown" whenever the field is missing, null,
\* empty or any other falsy value (number 0, false), and the field's own
\* value otherwise; both groupings sum to totals.accidents.
C13_UnknownWhenFalsy ==
    (stage = "aggregated" /\ raised = "none") => GroupedBy(KeyIfFalsy)

C13_Witness ==
    /\ stage = "aggregated"
    /\ raised = "none"
    /\ cases = <<StatsRecords[1], StatsRecords[5], StatsRecords[9]>>
    /\ CountFor(stats.by_state, JStr(<<"U", "n", "k", "n", "o", "w", "n">>)) = 2
    /\ CountFor(stats.by_state, JStr(<<"O", "K">>)) = 1

(***************************************************************************)
(* Properties of path resolution                                           *)
(***************************************************************************)
\* what one segment makes of the value reached so far, as C14 reads it
Step(cur, seg) ==
    IF cur.t = "list"
    THEN IF ~PyInt(seg).ok THEN None
         ELSE IF PyInt(seg).v < 0 \/ PyInt(seg).v >= Len(cur.items) THEN None
         ELSE cur.items[PyInt(seg).v + 1]
    ELSE IF cur.t = "dict"
    THEN IF Join(seg) \in DOMAIN cur.m THEN cur.m[Join(seg)] ELSE None
    ELSE None

JTypes == {"null", "bool", "num", "str", "list", "dict"}

\* C14: resolution never raises and always yields a value or absent (None);
\* the last segment applied to a sequence yields absent when it is no
\* integer, negative or >= the length, applied to a mapping without that
\* key it yields absent, applied to any other value it yields absent.
C14_ResolutionTotal ==
    stage = "resolved"
    => LET parts == Split(field)
           front == SubSeq(parts, 1, Len(parts) - 1)
           seg == parts[Len(parts)]
       IN /\ raised = "none"
          /\ resolved.f.t \in JTypes
          /\ resolved.s.t \in JTypes
          /\ resolved.f = Step(filter_get_loop(cases[1], front, 1), seg)
          /\ resolved.s = Step(sort_get_loop(cases[1], front, 1), seg)

C14_Witness ==
    /\ stage = "resolved"
    /\ cases = <<SortRecords[8]>>
    /\ field = <<"a", ".", "-", "1">>
    /\ resolved.f = None
    /\ resolved.s = None

\* C20: for every record and every path the resolver of filter_cases and
\* the resolver of sort_cases return the same result.
C20_ResolversAgree == stage = "resolved" => resolved.f = resolved.s

C20_Witness ==
    /\ stage = "resolved"
    /\ cases = <<SortRecords[9]>>
    /\ field = <<"x", ".", "b">>
    /\ resolved.f = None
    /\ resolved.s = None

(***************************************************************************)
(* Properties of the month helper                                          *)
(***************************************************************************)
\* the number of days of a month of the Gregorian calendar
DaysIn(y, m) ==
    IF m \in {4, 6, 9, 11} THEN 30
    ELSE IF m # 2 THEN 31
    ELSE IF y % 400 = 0 \/ (y % 4 = 0 /\ y % 100 # 0) THEN 29
    ELSE 28

\* C18: the payload of stream_ntsb_zip_by_month(year, month, mode) is the
\* payload of stream_ntsb_zip_by_date_range for the first and the last
\* calendar day of that month and the same mode.
C18_MonthDelegates ==
    payload # <<>>
    => /\ payload = build_date_range_payload(
                        date(year, month, 1),
                        date(year, month, DaysIn(year, month)), mode)
       /\ payload.QueryGroups[1].QueryRules[3].Values = <<mode>>

C18_Witness ==
    /\ payload # <<>>
    /\ year = 2024
    /\ month = 2
    /\ payload.QueryGroups[1].QueryRules[1].Values = <<"2024-02-01">>
    /\ payload.QueryGroups[1].QueryRules[2].Values = <<"2024-02-29">>

(***************************************************************************)
(* Properties of the routes                                                *)
(***************************************************************************)
\* the request is one that C15 says is rejected
Invalid ==
    /\ endpoint \in {"date-range"} \cup JsonEndpoints
    /\ \/ request.end_date < request.start_date
       \/ /\ endpoint \in {"cases", "search"}
          /\ (request.limit < 1 \/ request.limit > 500 \/ request.offset < 0)

\* C15: a request with end date before start date (on the case endpoints
\* also a limit outside 1..500 or an offset < 0) is rejected, and at no
\* point of its handling has an upstream request been issued or a
\* DataProcessor method been invoked.
C15_RejectedBeforeUpstream ==
    Invalid
    => /\ calls = 0
       /\ invoked = <<>>
       /\ rpc \in {"received", "done"}
       /\ rpc = "done" => response.status \in {400, 422, 500}

C15_Witness ==
    /\ rpc = "done"
    /\ endpoint = "cases"
    /\ request.end_date < request.start_date
    /\ request.limit = 1
    /\ request.offset = 0
    /\ calls = 0
    /\ response.status # 200

RECURSIVE SumSeq(_)
SumSeq(xs) == IF xs = <<>> THEN 0 ELSE Head(xs) + SumSeq(Tail(xs))

\* the stream of an accepted request of a JSON endpoint has ended normally
Drained ==
    /\ endpoint \in JsonEndpoints
    /\ calls = Len(upstream.attempts)
    /\ upstream.attempts[calls].kind = "ok"
    /\ received = Len(Handed(calls))
    /\ rpc # "streaming"

\* C16: when the stream completes with zero bytes in total the request
\* fails with 502 and no DataProcessor method is ever invoked; the
\* extractor is invoked only after the whole stream has been collected
\* into one non-empty buffer.
C16_EmptyUpstreamIs502 ==
    /\ (Drained /\ SumSeq(Handed(calls)) = 0)
       => /\ rpc = "done"
          /\ response.status = 502
          /\ response.detail = "Empty response from NTSB FileExport service"
          /\ invoked = <<>>
    /\ invoked # <<>>
       => /\ Drained
          /\ buf = SumSeq(Handed(calls))
          /\ buf > 0

C16_Witness ==
    /\ Drained
    /\ Handed(calls) = <<>>
    /\ calls = 2
    /\ endpoint = "stats"
    /\ response.status = 502
    /\ invoked = <<>>

\* the archive of the request, once collected, has a member whose name ends
\* in .json
HasJsonEntry ==
    \E i \in DOMAIN upstream.archive.files :
        LET n == upstream.archive.files[i].name
        IN Len(n) >= 5 /\ SubSeq(n, Len(n) - 4, Len(n)) = <<".", "j", "s", "o", "n">>

FirstJsonEntry ==
    upstream.archive.files[
        CHOOSE i \in DOMAIN upstream.archive.files :
            /\ Len(upstream.archive.files[i].name) >= 5
            /\ SubSeq(upstream.archive.files[i].name,
                      Len(upstream.archive.files[i].name) - 4,
                      Len(upstream.archive.files[i].name)) = <<".", "j", "s", "o", "n">>
            /\ \A j \in 1..(i - 1) :
                   LET n == upstream.archive.files[j].name
                   IN ~(Len(n) >= 5
                        /\ SubSeq(n, Len(n) - 4, Len(n)) = <<".", "j", "s", "o", "n">>)]

\* C17: on the JSON endpoints an archive without a .json entry gives a
\* successful response over zero records, whereas a decoded top-level value
\* that is not a list gives 502 before any pipeline stage runs.
C17_MalformedPayloads ==
    (Drained /\ buf > 0 /\ upstream.archive.zip /\ rpc = "done")
    => /\ ~HasJsonEntry
          => /\ response.status = 200
             /\ cases = <<>>
             /\ response.body.stats.totals.accidents = 0
             /\ endpoint # "stats"
                => /\ response.body.pagination.total = 0
                   /\ response.body.data = <<>>
       /\ (HasJsonEntry /\ FirstJsonEntry.ok /\ FirstJsonEntry.v.t # "list")
          => /\ response.status = 502
             /\ response.detail
                  = "Unexpected JSON structure from NTSB export (expected a list)"
             /\ invoked = <<"extract_json_from_zip">>

C17_Witness ==
    /\ Drained
    /\ rpc = "done"
    /\ endpoint = "search"
    /\ buf > 0
    /\ upstream.archive.zip
    /\ HasJsonEntry
    /\ FirstJsonEntry.ok
    /\ FirstJsonEntry.v.t = "dict"
    /\ response.status = 502
    /\ invoked = <<"extract_json_from_zip">>

\* C19: on the JSON endpoints an upstream transport error and an upstream
\* status error each get a response whose status and message identify the
\* kind, so it is not the response an unrelated internal error gets.
C19_ErrorKindsDistinct ==
    (endpoint \in JsonEndpoints /\ rpc = "done"
     /\ raised \in {"ConnectError", "ReadTimeout", "RemoteProtocolError", "HTTPStatusError"})
    => response # unhandled_exception_handler

\* C21: in every successful response of /cases and /cases/search,
\* stats.totals.accidents equals pagination.total, both are the number of
\* records after filtering and before pagination, whatever limit, offset
\* and sort are, and data holds at most limit records.
C21_TotalsAgree ==
    (rpc = "done" /\ endpoint \in {"cases", "search"} /\ response.status = 200)
    => LET n == Len(IF endpoint = "search"
                    THEN filter_cases(cases, request.filters) ELSE cases)
       IN /\ response.body.stats.totals.accidents = n
          /\ response.body.pagination.total = n
          /\ Len(response.body.data) <= request.limit

C21_Witness ==
    /\ rpc = "done"
    /\ endpoint = "search"
    /\ response.status = 200
    /\ request.filters # <<>>
    /\ request.sort_by # <<>>
    /\ request.offset = 1
    /\ Len(cases) = 3
    /\ response.body.pagination.total = 1
    /\ response.body.stats.totals.accidents = 1
    /\ response.body.data = <<>>

(***************************************************************************)
(* Properties of the rate limiter                                          *)
(***************************************************************************)
\* the window of ip that began at its last reset is still open
WindowOpen(ip) == ip \in DOMAIN store /\ store[ip].reset > now

\* a step in which the middleware handled a request of ip
RequestOf(ip) ==
    /\ store' # store
    /\ last'.ip = ip

\* C22: in every interleaving at most 60 requests of one client IP are
\* passed to a handler within one window of that IP; a further request of
\* that IP in the window is answered with 429 and a retry_after >= 0 and
\* reaches no handler; a request of one IP leaves the entry of every other
\* IP as it was.
C22_RateLimit ==
    [][ /\ \A ip \in ClientIPs : passed'[ip] <= 60
        /\ \A ip \in ClientIPs :
              RequestOf(ip)
              => /\ (WindowOpen(ip) /\ passed[ip] = 60)
                    => /\ last'.limited
                       /\ last'.retry_after >= 0
                       /\ handling' = handling
                       /\ passed' = passed
                 /\ last'.limited => handling' = handling /\ last'.retry_after >= 0
                 /\ \A other \in ClientIPs \ {ip} :
                       /\ other \in DOMAIN store' <=> other \in DOMAIN store
                       /\ other \in DOMAIN store => store'[other] = store[other]
                       /\ passed'[other] = passed[other]
      ]_vars

C22_Witness ==
    /\ last # <<>>
    /\ last.ip = "unknown"
    /\ last.limited
    /\ last.retry_after = 59
    /\ passed["unknown"] = 60
    /\ store["unknown"].count = 62
    /\ handling["unknown"] = 1
    /\ "10.0.0.1" \in DOMAIN store
    /\ store["10.0.0.1"].count = 3
    /\ store["10.0.0.1"].reset > store["unknown"].reset

====
